---- MODULE Spec2Model ----
(***************************************************************************)
(* WIND messaging fabric: the registry (wind-registry), its glob pattern   *)
(* matcher, and the publisher fan-out engine (wind-server), as state       *)
(* machines.                                                               *)
(***************************************************************************)
EXTENDS Integers, Sequences, FiniteSets, TLC

(***************************************************************************)
(* Bounds of the model.                                                    *)
(***************************************************************************)
\* Monotonic clock values range over 0..MaxTime.
MaxTime == 3
\* Watches opened in one behaviour.
MaxWatches == 2
\* RegisterService requests handled in one behaviour.
MaxRegistrations == 3
\* The same, in the watch scenario.
MaxWatchRegistrations == 2
\* The clock of the watch and discovery scenarios: 0..MaxScenarioTime.
MaxScenarioTime == 2
\* publish calls in one behaviour.
MaxPublish == 3
\* The clock of the publisher scenario: 0..MaxPubTime.
MaxPubTime == 1
MaxQueueSize == 2
MaxNext == 3
LongInterval == 2
MaxConnectCalls == 3
MaxRpcCalls == 3
MaxCodecIds == 3
MaxRegistryRequests == 3
MaxLockPublish == 2
CodecTimestamp == 1700000
MaxLifecycleTime == 70000
MaxLifecycleRegistrations == 12
MaxPeriodicTime == 4

\* Option::None
None == [none |-> TRUE]

(***************************************************************************)
(* Strings.  A Rust string is modelled by a TLA+ string naming it and the  *)
(* sequence of its characters.                                             *)
(***************************************************************************)
Chars(s) ==
    CASE s = "SENSOR/X" -> <<"S","E","N","S","O","R","/","X">>
      [] s = "OTHER/Y" -> <<"O","T","H","E","R","/","Y">>
      [] s = "SENSOR/ROOM_A/TEMP" ->
            <<"S","E","N","S","O","R","/","R","O","O","M","_","A","/","T","E","M","P">>
      [] s = "SENSOR/ROOM_B/TEMP" ->
            <<"S","E","N","S","O","R","/","R","O","O","M","_","B","/","T","E","M","P">>
      [] s = "DETECTOR/HALL_1/STATUS" ->
            <<"D","E","T","E","C","T","O","R","/","H","A","L","L","_","1","/",
              "S","T","A","T","U","S">>
      [] s = "SENSOR/ROOM1/TEMP" ->
            <<"S","E","N","S","O","R","/","R","O","O","M","1","/","T","E","M","P">>
      [] s = "SENSOR/ROOM1/HUMIDITY" ->
            <<"S","E","N","S","O","R","/","R","O","O","M","1","/",
              "H","U","M","I","D","I","T","Y">>
      [] s = "DET/CHAMBER_A1/STATUS" ->
            <<"D","E","T","/","C","H","A","M","B","E","R","_","A","1","/",
              "S","T","A","T","U","S">>
      [] s = "DET/ROOM_1/STATUS" ->
            <<"D","E","T","/","R","O","O","M","_","1","/","S","T","A","T","U","S">>
      [] s = "SENSOR" -> <<"S","E","N","S","O","R">>
      [] s = "SENSOR/" -> <<"S","E","N","S","O","R","/">>
      [] s = "" -> <<>>
      \* patterns
      [] s = "SENSOR/*" -> <<"S","E","N","S","O","R","/","*">>
      [] s = "SENSOR/*/TEMP" -> <<"S","E","N","S","O","R","/","*","/","T","E","M","P">>
      [] s = "*" -> <<"*">>
      [] s = "*/*" -> <<"*","/","*">>
      [] s = "SENSOR/?" -> <<"S","E","N","S","O","R","/","?">>
      [] s = "SENSOR?X" -> <<"S","E","N","S","O","R","?","X">>
      [] s = "DET/CHAMBER_*/STATUS" ->
            <<"D","E","T","/","C","H","A","M","B","E","R","_","*","/",
              "S","T","A","T","U","S">>
      [] s = "SENSOR/[W-Y]" -> <<"S","E","N","S","O","R","/","[","W","-","Y","]">>
      [] s = "SENSOR/[!X]" -> <<"S","E","N","S","O","R","/","[","!","X","]">>
      [] s = "SENSOR[/]X" -> <<"S","E","N","S","O","R","[","/","]","X">>
      [] s = "**/X" -> <<"*","*","/","X">>
      [] s = "SENSOR/**" -> <<"S","E","N","S","O","R","/","*","*">>
      [] s = "SENSOR**" -> <<"S","E","N","S","O","R","*","*">>
      [] s = "***" -> <<"*","*","*">>
      [] s = "[" -> <<"[">>
      [] s = "SENSOR/[X" -> <<"S","E","N","S","O","R","/","[","X">>

\* Code points of the characters used, for character ranges `[a-b]`.
Code(c) ==
    CASE c = "!" -> 33 [] c = "*" -> 42 [] c = "-" -> 45 [] c = "/" -> 47
      [] c = "1" -> 49 [] c = "?" -> 63
      [] c = "A" -> 65 [] c = "B" -> 66 [] c = "C" -> 67 [] c = "D" -> 68
      [] c = "E" -> 69 [] c = "H" -> 72 [] c = "I" -> 73 [] c = "L" -> 76
      [] c = "M" -> 77 [] c = "N" -> 78 [] c = "O" -> 79 [] c = "P" -> 80
      [] c = "R" -> 82 [] c = "S" -> 83 [] c = "T" -> 84 [] c = "U" -> 85
      [] c = "W" -> 87 [] c = "X" -> 88 [] c = "Y" -> 89
      [] c = "[" -> 91 [] c = "]" -> 93 [] c = "_" -> 95

\* std::path::is_separator on the build's platform (unix).
is_separator(c) == c = "/"

SubSeqFrom(s, i) == IF i > Len(s) THEN <<>> ELSE SubSeq(s, i, Len(s))

\* Position (0-based offset) of the first "]" in s, or -1.
RECURSIVE PositionOfClose(_, _)
PositionOfClose(s, k) ==
    IF k > Len(s) THEN -1
    ELSE IF s[k] = "]" THEN k - 1
    ELSE PositionOfClose(s, k + 1)

(***************************************************************************)
(* glob::Pattern as used by ServicePattern.  Tokens:                       *)
(*   [t |-> "Char", c], "AnyChar", "AnySequence", "AnyRecursiveSequence",  *)
(*   [t |-> "AnyWithin", cs], [t |-> "AnyExcept", cs]                      *)
(* and a character specifier is [lo, hi] (a single char has lo = hi).      *)
(***************************************************************************)
RECURSIVE parse_char_specifiers(_, _)
parse_char_specifiers(s, i) ==
    IF i > Len(s) THEN <<>>
    ELSE IF i + 2 <= Len(s) /\ s[i + 1] = "-"
         THEN <<[lo |-> s[i], hi |-> s[i + 2]]>> \o parse_char_specifiers(s, i + 3)
         ELSE <<[lo |-> s[i], hi |-> s[i]]>> \o parse_char_specifiers(s, i + 1)

CountStars(chars, i) ==
    LET RECURSIVE run(_)
        run(k) == IF k <= Len(chars) /\ chars[k] = "*" THEN run(k + 1) ELSE k
    IN run(i) - i

\* Pattern::new: Ok(tokens) or Err(PatternError).
\* i is the 1-based index of the next character.
PatternError == [ok |-> FALSE]
PatternOk(tokens) == [ok |-> TRUE, tokens |-> tokens]

PushRecursive(tokens) ==
    \* consecutive AnyRecursiveSequence tokens collapse into one
    IF Len(tokens) > 1 /\ tokens[Len(tokens)].t = "AnyRecursiveSequence"
    THEN tokens
    ELSE Append(tokens, [t |-> "AnyRecursiveSequence"])

RECURSIVE ParseTokens(_, _, _)
ParseTokens(chars, i, tokens) ==
    IF i > Len(chars) THEN PatternOk(tokens)
    ELSE IF chars[i] = "?"
         THEN ParseTokens(chars, i + 1, Append(tokens, [t |-> "AnyChar"]))
    ELSE IF chars[i] = "*"
         THEN LET count == CountStars(chars, i)
                  j == i + count   \* index after the run of `*`
              IN IF count > 2 THEN PatternError
                 ELSE IF count = 2
                      THEN IF i = 1 \/ is_separator(chars[i - 1])
                           THEN IF j <= Len(chars) /\ is_separator(chars[j])
                                THEN ParseTokens(chars, j + 1, PushRecursive(tokens))
                                ELSE IF j = Len(chars) + 1
                                THEN ParseTokens(chars, j, PushRecursive(tokens))
                                ELSE PatternError
                           ELSE PatternError
                      ELSE ParseTokens(chars, j, Append(tokens, [t |-> "AnySequence"]))
    ELSE IF chars[i] = "["
         THEN IF i + 3 <= Len(chars) /\ chars[i + 1] = "!"
              THEN LET p == PositionOfClose(SubSeqFrom(chars, i + 3), 1)
                   IN IF p = -1 THEN PatternError
                      ELSE ParseTokens(chars, i + p + 4,
                             Append(tokens,
                               [t |-> "AnyExcept",
                                cs |-> parse_char_specifiers(
                                         SubSeq(chars, i + 2, i + 2 + p), 1)]))
              ELSE IF i + 2 <= Len(chars) /\ chars[i + 1] # "!"
              THEN LET p == PositionOfClose(SubSeqFrom(chars, i + 2), 1)
                   IN IF p = -1 THEN PatternError
                      ELSE ParseTokens(chars, i + p + 3,
                             Append(tokens,
                               [t |-> "AnyWithin",
                                cs |-> parse_char_specifiers(
                                         SubSeq(chars, i + 1, i + 1 + p), 1)]))
              ELSE PatternError
    ELSE ParseTokens(chars, i + 1, Append(tokens, [t |-> "Char", c |-> chars[i]]))

in_char_specifiers(cs, c) ==
    \E k \in 1..Len(cs) : Code(cs[k].lo) <= Code(c) /\ Code(c) <= Code(cs[k].hi)

\* Pattern::matches_from with options = (require_literal_separator = rls),
\* case sensitive, no require_literal_leading_dot.  TRUE iff the result is Match.
RECURSIVE matches_from(_, _, _, _, _)
matches_from(tokens, ti, file, fi, rls) ==
    IF ti > Len(tokens) THEN fi > Len(file)
    ELSE IF tokens[ti].t \in {"AnySequence", "AnyRecursiveSequence"}
    THEN \/ matches_from(tokens, ti + 1, file, fi, rls)
         \/ \E k \in fi..Len(file) :
               \* the sequence consumes file[fi..k]
               \* `**` tries the rest only after a separator, or with the
               \* file exhausted (the loop falls through to the next token)
               /\ tokens[ti].t = "AnyRecursiveSequence" =>
                     (is_separator(file[k]) \/ k = Len(file))
               /\ (tokens[ti].t = "AnySequence" /\ rls) =>
                     \A m \in fi..k : ~is_separator(file[m])
               /\ matches_from(tokens, ti + 1, file, k + 1, rls)
    ELSE /\ fi <= Len(file)
         /\ LET c == file[fi]
            IN CASE tokens[ti].t = "AnyChar" -> ~(rls /\ is_separator(c))
                 [] tokens[ti].t = "AnyWithin" ->
                      ~(rls /\ is_separator(c)) /\ in_char_specifiers(tokens[ti].cs, c)
                 [] tokens[ti].t = "AnyExcept" ->
                      ~(rls /\ is_separator(c)) /\ ~in_char_specifiers(tokens[ti].cs, c)
                 [] tokens[ti].t = "Char" -> c = tokens[ti].c
         /\ matches_from(tokens, ti + 1, file, fi + 1, rls)

\* Faulty variant: wildcards confined to one path segment
RequireLiteralSeparatorStrict == TRUE

\* MatchOptions::new(): require_literal_separator = false.
RequireLiteralSeparator == FALSE

\* The patterns and the names the model compiles and matches.
GlobPatterns ==
    {"SENSOR/*", "SENSOR/*/TEMP", "*", "*/*", "SENSOR/?", "SENSOR?X",
     "DET/CHAMBER_*/STATUS", "SENSOR/[W-Y]", "SENSOR/[!X]", "SENSOR[/]X",
     "**/X", "SENSOR/**", "SENSOR**", "***", "[", "SENSOR/[X",
     "SENSOR/X", "OTHER/Y", "SENSOR", ""}
GlobNames ==
    {"SENSOR/X", "OTHER/Y", "SENSOR/ROOM_A/TEMP", "SENSOR/ROOM_B/TEMP",
     "DETECTOR/HALL_1/STATUS", "SENSOR/ROOM1/TEMP", "SENSOR/ROOM1/HUMIDITY",
     "DET/CHAMBER_A1/STATUS", "DET/ROOM_1/STATUS", "SENSOR", "SENSOR/", ""}

\* ServicePattern::new over GlobPatterns, computed once.
compiled == [p \in GlobPatterns |-> ParseTokens(Chars(p), 1, <<>>)]

\* ServicePattern::new: Ok(compiled pattern) or Err(PatternError).
ServicePattern_new(pattern) == compiled[pattern]

\* glob::Pattern::matches over the compilable patterns and GlobNames,
\* computed once.
matched ==
    [p \in {q \in GlobPatterns : compiled[q].ok}, n \in GlobNames |->
        matches_from(compiled[p].tokens, 1, Chars(n), 1, RequireLiteralSeparator)]

\* Faulty variant: a pattern that matches only the name equal to it
ServicePattern_matches_exact(pattern, service_name) == pattern = service_name

\* ServicePattern::matches.
ServicePattern_matches(pattern, service_name) == matched[pattern, service_name]


(***************************************************************************)
(* Registry (wind-registry/src/registry.rs).                               *)
(*                                                                         *)
(* Time is a monotonic clock `now`; one unit is one millisecond of ttl_ms. *)
(* The metrics counters other than total_registrations are write-only and  *)
(* are not modelled.                                                       *)
(***************************************************************************)
VARIABLES
    now,            \* Instant::now()
    scenario,       \* the inputs of this run: the RegisterService requests and
                    \* patterns clients send, the connections, the bounds
    services,       \* Registry.services: name -> ServiceEntry, or None
    watches,        \* Registry.watches: Vec<ServiceWatch>, as watch ids
    watchers,       \* per watch id: pattern, channel and receiver
    total_registrations, \* RegistryMetrics.total_registrations
    pending,        \* per connection: the ServiceInfo whose registration
                    \* has been stored and awaits notify_watchers
    cleanupPc,      \* position of the cleanup task in cleanup_expired
    reply,          \* what the step just taken returned to its caller
    lease_end,      \* history: per name, the time of its last successful
                    \* Register or Renew plus that request's ttl_ms (-1: none)
    open_at_store   \* history: per connection, the watches that were open
                    \* with a held receiver when its registration was stored

registryVars == <<now, scenario, services, watches, watchers,
                  total_registrations, pending, cleanupPc, reply,
                  lease_end, open_at_store>>

(***************************************************************************)
(* Publisher (wind-server/src/publisher.rs) and its subscribers.           *)
(***************************************************************************)
VARIABLES
    sequence_number, \* Publisher.sequence_number
    current_value,   \* Publisher.current_value: None or Some(value)
    update_rx,       \* values queued for the receiver of start_update_sender
    clients,         \* Publisher.clients: client id -> ActiveClient, or None
    clients_lock,    \* holder of the write lock on clients, or None
    publishers,      \* per task calling publish: position and value
    sender,          \* the task of start_update_sender: position, new_value, seq
    listener,        \* per client id: position of the task of spawn_client_listener
    conn,            \* per client connection: the subscriber's end of the stream
    published,       \* history: the values of the publish calls, by sequence number
    returned         \* history: the highest sequence number of a publish call
                     \* that has returned (0: none)

pubVars == <<sequence_number, current_value, update_rx, clients, clients_lock,
             publishers, sender, listener, conn, published, returned>>

(***************************************************************************)
(* A call of ServicePattern::new and ServicePattern::matches.              *)
(***************************************************************************)
VARIABLES
    pattern_arg,     \* the pattern
    name_arg,        \* the service name
    match_result     \* the position in the call and what it returned

globVars == <<pattern_arg, name_arg, match_result>>

(***************************************************************************)
(* Subscriber (wind-client/src/subscriber.rs): per connection, the call of *)
(* Subscriber::subscribe, its receiver task and the Subscription it        *)
(* returns.                                                                *)
(***************************************************************************)
VARIABLES
    subscriber,      \* per client id: position of subscribe and of the receiver
                     \* task, the delivery queue, what next() has returned
    sent_at          \* history: per client id, the times of the Publish writes

subVars == <<subscriber, sent_at>>

(***************************************************************************)
(* Client connections (wind-client/src/connection.rs), an RPC call and its *)
(* server (wind-client/src/rpc_client.rs, wind-server/src/rpc_server.rs),  *)
(* and a call of the codec (wind-core/src/codec.rs).                       *)
(***************************************************************************)
VARIABLES
    connection,      \* struct Connection and the position in Connection::connect
    connect_log,     \* history: the connect calls, and the attempts and sleeps
                     \* of the current one
    rpc,             \* an RpcClient::call and the task of RpcServer::handle_client
    codec,           \* a message given to MessageCodec and what came of it
    hosts,           \* the publishers and the RPC server: whether started, and
                     \* the last tick of the heartbeat timer
    registry_conn    \* the connections to the registry: the requests written,
                     \* the task of handle_client and the responses written

auxVars == <<connection, connect_log, rpc, codec, hosts, registry_conn>>

vars == <<registryVars, pubVars, globVars, subVars, auxVars>>

\* Registry connections (tasks spawned by RegistryServer::run).
Conns == {1, 2}
WatchConns == {1}
WatchIds == 1..MaxWatches

\* broadcast::channel(1000) of watch_services
WatchChannelCapacity == 1000
\* usize::MAX of the build target, as far as TLC's integers reach: every
\* receiver count of the model is below it.
usize_MAX == 2147483647
UpdateChannelCapacity == 1000
\* Connection::new and Connection::connect: the attempts allowed, the first
\* delay and the longest delay, in milliseconds.
MaxReconnectAttempts == 10
ReconnectDelayStart == 1000
ReconnectDelayCap == 30000
\* codec.rs: const MAX_MESSAGE_SIZE = 16 * 1024 * 1024
MAX_MESSAGE_SIZE == 16777216
\* Publisher::new and RpcServer::new: ttl_ms, heartbeat_interval; the period
\* of the registry's cleanup task
DefaultTtlMs == 60000
HeartbeatIntervalMs == 30000
CleanupIntervalMs == 10000

ServiceInfo(name, address, service_type, ttl_ms, tags) ==
    [name |-> name, address |-> address, service_type |-> service_type,
     schema_id |-> None, ttl_ms |-> ttl_ms, tags |-> tags]

\* RegisterService requests of the registry scenario: two publishers
\* claiming SENSOR/X from different addresses, one publishing OTHER/Y.
RegistryCatalog ==
    { ServiceInfo("SENSOR/X", "10.0.0.1:4001", "Publisher", 1, <<>>),
      ServiceInfo("SENSOR/X", "10.0.0.2:4002", "Publisher", 2, <<>>),
      ServiceInfo("OTHER/Y", "10.0.0.3:4003", "Publisher", 1, <<>>) }

\* RegisterService requests of the watch scenario.
WatchCatalog ==
    { ServiceInfo("SENSOR/X", "10.0.0.1:4001", "Publisher", 1, <<>>),
      ServiceInfo("OTHER/Y", "10.0.0.3:4003", "Publisher", 1, <<>>) }

\* RegisterService requests of test_service_discovery, and one more service.
DiscoveryCatalog ==
    { ServiceInfo("SENSOR/ROOM_A/TEMP", "10.0.0.1:4001", "Publisher", 1,
                  <<"sensor", "temperature">>),
      ServiceInfo("SENSOR/ROOM_B/TEMP", "10.0.0.2:4002", "Publisher", 1,
                  <<"sensor", "temperature">>),
      ServiceInfo("DETECTOR/HALL_1/STATUS", "10.0.0.3:4003", "Publisher", 1,
                  <<"detector", "status">>),
      ServiceInfo("OTHER/Y", "10.0.0.4:4004", "Publisher", 1, <<>>) }

ServiceNames == {r.name : r \in RegistryCatalog \cup DiscoveryCatalog}

\* Patterns clients discover and watch with.
RegistryPatterns == {"SENSOR/*", "*", "OTHER/Y", "SENSOR/[X"}
WatchPatterns == {"SENSOR/*", "*", "SENSOR/[X"}
DiscoveryPatterns == {"SENSOR/*/TEMP", "SENSOR/*", "*", "***"}

\* ServiceEntry::new
ServiceEntry_new(info, ttl, t) ==
    \* registered_at is set here and never read or written again: left out
    [info |-> info, expires_at |-> t + ttl, last_heartbeat |-> t]

\* ServiceEntry::renew
ServiceEntry_renew(entry, ttl, t) ==
    [entry EXCEPT !.last_heartbeat = t, !.expires_at = t + ttl]

\* Faulty variant: expiry one tick late
is_expired_late(entry, t) == t > entry.expires_at + 1

\* ServiceEntry::is_expired
is_expired(entry, t) == t > entry.expires_at

\* Faulty variant: insert that keeps an entry already stored under the key
DashMap_insert_if_absent(map, key, value) ==
    IF map[key] = None THEN [map EXCEPT ![key] = value] ELSE map

\* DashMap::insert
DashMap_insert(map, key, value) == [map EXCEPT ![key] = value]

\* Registry::lookup_service
lookup_service(name) ==
    IF services[name] # None /\ ~is_expired(services[name], now)
    THEN services[name].info
    ELSE None

\* Faulty variant: discovery without the expiry filter
discover_services_unfiltered(pattern) ==
    IF ~ServicePattern_new(pattern).ok THEN [ok |-> FALSE, error |-> "Registry"]
    ELSE [ok |-> TRUE,
          services |->
            { services[n].info :
                n \in { m \in ServiceNames :
                          /\ services[m] # None
                          /\ ServicePattern_matches(pattern, m) } }]

\* Registry::discover_services: Ok with the set of ServiceInfo returned (the
\* Vec is in the map's iteration order), or Err(WindError::Registry).
RegistryError == [ok |-> FALSE, error |-> "Registry"]
discover_services(pattern) ==
    IF ~ServicePattern_new(pattern).ok THEN RegistryError
    ELSE [ok |-> TRUE,
          services |->
            { services[n].info :
                n \in { m \in ServiceNames :
                          /\ services[m] # None
                          /\ ~is_expired(services[m], now)
                          /\ ServicePattern_matches(pattern, m) } }]

\* broadcast::Sender::receiver_count
receiver_count(w) == IF watchers[w].held THEN 1 ELSE 0

\* broadcast::Sender::send: Err (nothing queued) without a receiver; with
\* the queue full the oldest value is overwritten.
broadcast_send(ch, value) ==
    IF ~ch.held THEN ch
    ELSE [ch EXCEPT !.got = IF Len(@) >= WatchChannelCapacity
                            THEN Append(Tail(@), value)
                            ELSE Append(@, value)]

\* Faulty variant: notification of every watch, whatever its pattern
notify_all_watchers(service) ==
    [w \in WatchIds |->
        IF \E k \in 1..Len(watches) : watches[k] = w
        THEN broadcast_send(watchers[w], service)
        ELSE watchers[w]]

\* Registry::notify_watchers
notify_watchers(service) ==
    [w \in WatchIds |->
        IF /\ \E k \in 1..Len(watches) : watches[k] = w
           /\ ServicePattern_matches(watchers[w].pattern, service.name)
        THEN broadcast_send(watchers[w], service)
        ELSE watchers[w]]

RegistryScenario ==
    [catalog |-> RegistryCatalog, patterns |-> RegistryPatterns, conns |-> Conns,
     max_registrations |-> MaxRegistrations, max_time |-> MaxTime]
WatchScenario ==
    [catalog |-> WatchCatalog, patterns |-> WatchPatterns, conns |-> WatchConns,
     max_registrations |-> MaxWatchRegistrations, max_time |-> MaxScenarioTime]
DiscoveryScenario ==
    [catalog |-> DiscoveryCatalog, patterns |-> DiscoveryPatterns, conns |-> WatchConns,
     max_registrations |-> MaxRegistrations, max_time |-> MaxScenarioTime]

\* The orders in which a Vec can list the elements of a set.
Orderings(S) ==
    { q \in [1..Cardinality(S) -> S] : \A x \in S : \E k \in DOMAIN q : q[k] = x }

\* The step returns nothing to a caller.
NoReply == [op |-> "none"]

RegistryInit ==
    /\ now = 0
    /\ services = [n \in ServiceNames |-> None]
    /\ watches = <<>>
    /\ watchers = [w \in WatchIds |->
                     [pattern |-> None, stage |-> "idle", held |-> FALSE, got |-> <<>>]]
    /\ total_registrations = 0
    /\ pending = [c \in Conns |-> None]
    /\ cleanupPc = "services"
    /\ reply = NoReply
    /\ lease_end = [n \in ServiceNames |-> -1]
    /\ open_at_store = [c \in Conns |-> {}]

\* The clock advances.
Tick ==
    /\ now < scenario.max_time
    /\ now' = now + 1
    /\ reply' = NoReply
    /\ UNCHANGED <<scenario, services, watches, watchers, total_registrations,
                   pending, cleanupPc>>
    /\ UNCHANGED <<auxVars, pubVars, globVars, subVars, lease_end, open_at_store>>

\* Registry::register_service up to its await of notify_watchers: the entry
\* is built and stored and the registration counted.
register_store(c, info) ==
    /\ pending[c] = None
    /\ total_registrations < scenario.max_registrations
    /\ services' = DashMap_insert(services, info.name,
                                  ServiceEntry_new(info, info.ttl_ms, now))
    /\ total_registrations' = total_registrations + 1
    /\ pending' = [pending EXCEPT ![c] = info]
    /\ reply' = NoReply
    /\ lease_end' = [lease_end EXCEPT ![info.name] = now + info.ttl_ms]
    /\ open_at_store' = [open_at_store EXCEPT ![c] =
                            {w \in WatchIds : watchers[w].stage = "open"
                                              /\ watchers[w].held}]
    /\ UNCHANGED <<now, scenario, watches, watchers, cleanupPc>>

\* A RegisterService request arrives on connection c.
RegisterStore(c, info) ==
    /\ register_store(c, info)
    /\ UNCHANGED <<auxVars, pubVars, globVars, subVars>>

\* Registry::register_service from notify_watchers on, and the
\* ServiceRegistered{success: true} of handle_message.
register_notify(c) ==
    /\ pending[c] # None
    /\ watchers' = notify_watchers(pending[c])
    /\ pending' = [pending EXCEPT ![c] = None]
    /\ reply' = [op |-> "ServiceRegistered", service |-> pending[c].name,
                 success |-> TRUE]
    /\ open_at_store' = [open_at_store EXCEPT ![c] = {}]
    /\ UNCHANGED <<now, scenario, services, watches, total_registrations, cleanupPc>>
    /\ UNCHANGED lease_end

\* The registration of connection c completes.
RegisterNotify(c) ==
    /\ register_notify(c)
    /\ UNCHANGED <<auxVars, pubVars, globVars, subVars>>

\* Faulty variant: renewal that does not compare the address
renew_matches_any(entry, address) == entry # None

\* Registry::renew_service, its two conditions: `if let Some(entry)` and
\* `entry.info.address == address`
renew_matches(entry, address) == entry # None /\ entry.info.address = address

\* Registry::renew_service
renew_service(name, address, ttl_ms) ==
    /\ IF renew_matches(services[name], address)
       THEN /\ services' = [services EXCEPT
                              ![name] = ServiceEntry_renew(@, ttl_ms, now)]
            /\ reply' = [op |-> "Renew", result |-> "Ok"]
            /\ lease_end' = [lease_end EXCEPT ![name] = now + ttl_ms]
       ELSE /\ services' = services
            /\ reply' = [op |-> "Renew", result |-> "ServiceNotFound"]
            /\ lease_end' = lease_end
    /\ UNCHANGED <<now, scenario, watches, watchers, total_registrations,
                   pending, cleanupPc, open_at_store>>
    /\ UNCHANGED <<auxVars, pubVars, globVars, subVars>>

\* A client calls Registry::lookup_service.
Lookup(name) ==
    /\ reply' = [op |-> "Lookup", result |-> lookup_service(name)]
    /\ UNCHANGED <<now, scenario, services, watches, watchers, total_registrations,
                   pending, cleanupPc>>
    /\ UNCHANGED <<auxVars, pubVars, globVars, subVars, lease_end, open_at_store>>

\* handle_message, DiscoverServices: ServicesDiscovered or Error.
Discover(pattern) ==
    /\ reply' = [op |-> "Discover", result |-> discover_services(pattern)]
    /\ UNCHANGED <<now, scenario, services, watches, watchers, total_registrations,
                   pending, cleanupPc>>
    /\ UNCHANGED <<auxVars, pubVars, globVars, subVars, lease_end, open_at_store>>


\* `!watch.sender.receiver_count()`: bitwise NOT of a usize.
usize_not(x) == usize_MAX - x

\* The predicate of watches.retain in cleanup_expired: the watch is kept.
cleanup_retains_watch(w) == usize_not(receiver_count(w)) = 0

\* Registry::cleanup_expired, up to its await of the watches lock.
CleanupServices ==
    /\ cleanupPc = "services"
    /\ services' = [n \in ServiceNames |->
                      IF services[n] # None /\ ~is_expired(services[n], now)
                      THEN services[n] ELSE None]
    /\ cleanupPc' = "watches"
    /\ reply' = NoReply
    /\ UNCHANGED <<now, scenario, watches, watchers, total_registrations, pending>>
    /\ UNCHANGED <<auxVars, pubVars, globVars, subVars, lease_end, open_at_store>>

\* Registry::cleanup_expired, "Clean up closed watchers".
CleanupWatches ==
    /\ cleanupPc = "watches"
    /\ watches' = SelectSeq(watches, cleanup_retains_watch)
    /\ cleanupPc' = "services"
    /\ reply' = NoReply
    /\ UNCHANGED <<now, scenario, services, watchers, total_registrations, pending>>
    /\ UNCHANGED <<auxVars, pubVars, globVars, subVars, lease_end, open_at_store>>

\* Registry::watch_services up to its await of the watches lock: the
\* pattern is compiled, the channel created and the snapshot sent.
WatchSnapshot(w, pattern) ==
    /\ watchers[w].stage = "idle"
    \* watch ids (Uuid::new_v4) are numbered in the order of the calls
    /\ \A v \in WatchIds : v < w => watchers[v].stage # "idle"
    /\ IF ~ServicePattern_new(pattern).ok
       THEN /\ watchers' = watchers
            /\ reply' = [op |-> "Watch", result |-> "RegistryError"]
       ELSE /\ \E snapshot \in Orderings(discover_services(pattern).services) :
                 watchers' = [watchers EXCEPT ![w] =
                                [pattern |-> pattern, stage |-> "snapshot",
                                 held |-> TRUE, got |-> snapshot]]
            /\ reply' = NoReply
    /\ UNCHANGED <<now, scenario, services, watches, total_registrations,
                   pending, cleanupPc>>
    /\ UNCHANGED <<auxVars, pubVars, globVars, subVars, lease_end, open_at_store>>

\* Registry::watch_services, "Add to active watches", and its return of the
\* receiver.
WatchPush(w) ==
    /\ watchers[w].stage = "snapshot"
    /\ watches' = Append(watches, w)
    /\ watchers' = [watchers EXCEPT ![w].stage = "open"]
    /\ reply' = [op |-> "Watch", result |-> "Ok"]
    /\ UNCHANGED <<now, scenario, services, total_registrations, pending, cleanupPc>>
    /\ UNCHANGED <<auxVars, pubVars, globVars, subVars, lease_end, open_at_store>>

\* The caller of watch_services drops the receiver.
ReceiverDrop(w) ==
    /\ watchers[w].stage = "open"
    /\ watchers[w].held
    \* the values queued for the receiver go with it
    /\ watchers' = [watchers EXCEPT ![w].held = FALSE, ![w].got = <<>>]
    /\ reply' = NoReply
    /\ UNCHANGED <<now, scenario, services, watches, total_registrations,
                   pending, cleanupPc>>
    /\ UNCHANGED <<auxVars, pubVars, globVars, subVars, lease_end, open_at_store>>

CatalogNames == {r.name : r \in scenario.catalog}

\* The registry serving lookups, discovery and leases.
Next ==
    \/ Tick
    \/ \E c \in scenario.conns, info \in scenario.catalog : RegisterStore(c, info)
    \/ \E c \in scenario.conns : RegisterNotify(c)
    \/ \E n \in CatalogNames, r \in scenario.catalog : renew_service(n, r.address, r.ttl_ms)
    \/ \E n \in CatalogNames : Lookup(n)
    \/ \E p \in scenario.patterns : Discover(p)
    \/ CleanupServices
    \/ CleanupWatches

\* The registry serving watches: every operation that changes its state.
NextWatch ==
    \/ Tick
    \/ \E c \in scenario.conns, info \in scenario.catalog : RegisterStore(c, info)
    \/ \E c \in scenario.conns : RegisterNotify(c)
    \/ \E n \in CatalogNames, r \in scenario.catalog : renew_service(n, r.address, r.ttl_ms)
    \/ CleanupServices
    \/ CleanupWatches
    \/ \E w \in WatchIds, p \in scenario.patterns : WatchSnapshot(w, p)
    \/ \E w \in WatchIds : WatchPush(w)
    \/ \E w \in WatchIds : ReceiverDrop(w)

(***************************************************************************)
(* Publisher (wind-server/src/publisher.rs).                               *)
(***************************************************************************)
\* Option::Some
Some(v) == [some |-> v]

\* Subscriber connections, tasks calling publish, published values.
ClientIds == {1, 2}
PublishCallers == {1, 2}
Values == {"v1", "v2"}
\* interval_ms of the Periodic subscriptions.
PeriodicInterval == 1
TopicName == "SENSOR/X"

\* SubscriptionMode
SubscriptionModes ==
    {[kind |-> "Once"], [kind |-> "OnChange"],
     [kind |-> "Periodic", interval_ms |-> PeriodicInterval]}

\* What a connected client writes first: a Subscribe, or a message the
\* publisher does not expect.
ClientMessages ==
    {[type |-> "Subscribe", service |-> TopicName, mode |-> m] : m \in SubscriptionModes}
        \cup {[type |-> "Ping"]}

\* The subscribers of the sequence-number scenario.
PubClients == {1}

PubScenario ==
    [catalog |-> {}, patterns |-> {}, conns |-> PubClients,
     max_registrations |-> 0, max_time |-> MaxPubTime,
     max_publish |-> MaxPublish]

\* The publish calls of the on-change scenario, in order, and its one
\* subscriber.
OnChangeScript == <<"v1", "v1", "v2", "v2", "v3">>
OnChangeSubscribe ==
    [type |-> "Subscribe", service |-> TopicName, mode |-> [kind |-> "OnChange"]]

OnChangeScenario ==
    [catalog |-> {}, patterns |-> {}, conns |-> PubClients,
     max_registrations |-> 0, max_time |-> 0,
     max_publish |-> Len(OnChangeScript)]

\* The scenario of one subscriber using Subscriber::subscribe.
SubScenario ==
    [catalog |-> {}, patterns |-> {}, conns |-> PubClients,
     max_registrations |-> 0, max_time |-> 0,
     max_publish |-> MaxPublish]

\* The scenario of one Periodic subscriber: its mode, and a clock that runs
\* over two intervals.
PeriodicMode == [kind |-> "Periodic", interval_ms |-> LongInterval]

PeriodicScenario ==
    [catalog |-> {}, patterns |-> {}, conns |-> PubClients,
     max_registrations |-> 0, max_time |-> MaxPeriodicTime,
     max_publish |-> MaxPublish]

\* The Periodic scenario with a single publish call.
PeriodicIdleScenario == [PeriodicScenario EXCEPT !.max_publish = 1]

\* The scenario of an OnChange subscriber (client 1) next to a client that
\* connects and may stay silent (client 2); the values of the publish calls,
\* in order.
StallScript == <<"v1", "v2">>
Stallers == {2}

StallScenario ==
    [catalog |-> {}, patterns |-> {}, conns |-> ClientIds \ Stallers,
     max_registrations |-> 0, max_time |-> 0,
     max_publish |-> Len(StallScript)]

\* The scenario of two subscribers that may close their connections while
\* one task publishes FanOutScript; what they subscribe with.
FanOutScript == <<"v1", "v1", "v2">>
FanOutMessages ==
    {[type |-> "Subscribe", service |-> TopicName, mode |-> m] :
        m \in {[kind |-> "Once"], [kind |-> "OnChange"]}}

FanOutScenario ==
    [catalog |-> {}, patterns |-> {}, conns |-> ClientIds,
     max_registrations |-> 0, max_time |-> 0,
     max_publish |-> Len(FanOutScript)]

\* The scenario of a Reliable subscriber and a fan-out task that is not
\* scheduled while publish is called once more than the update channel holds.
ReliableQos ==
    [reliability |-> "Reliable", durability |-> FALSE, max_queue_size |-> MaxQueueSize]

BackpressureScenario ==
    [catalog |-> {}, patterns |-> {}, conns |-> PubClients,
     max_registrations |-> 0, max_time |-> 0,
     max_publish |-> UpdateChannelCapacity + 1]

\* ClientSubscription::new
ClientSubscription_new(mode) ==
    [mode |-> mode, last_sent_at |-> None, last_sent_value |-> None]

\* Faulty variant: every value is sent
should_send_always(subscription, t, next) == TRUE

\* ClientSubscription::should_send
should_send(subscription, t, next) ==
    CASE subscription.mode.kind = "Once" -> subscription.last_sent_at = None
      [] subscription.mode.kind = "OnChange" -> subscription.last_sent_value # Some(next)
      [] subscription.mode.kind = "Periodic" ->
            IF subscription.last_sent_at = None THEN TRUE
            ELSE t - subscription.last_sent_at.some >= subscription.mode.interval_ms

\* Faulty variant: the time of the send is not recorded
mark_sent_untimed(subscription, t, sent) ==
    [subscription EXCEPT !.last_sent_value = Some(sent)]

\* ClientSubscription::mark_sent
mark_sent(subscription, t, sent) ==
    [subscription EXCEPT !.last_sent_at = Some(t), !.last_sent_value = Some(sent)]

\* Faulty variant: a counter one bit wide
fetch_add_one_bit(counter) == (counter + 1) % 2

\* AtomicU64::fetch_add(1), the value stored
fetch_add(counter) == counter + 1

\* Faulty variant: every value is queued twice
update_tx_send_twice(queue, value) == Append(Append(queue, value), value)

\* broadcast::Sender::send on update_tx, as seen by the receiver of
\* start_update_sender: nothing is queued before that receiver subscribes,
\* and a full queue loses its oldest value.
update_tx_send(queue, value) ==
    IF sender.pc = "unstarted" THEN queue
    ELSE IF Len(queue) >= UpdateChannelCapacity THEN Append(Tail(queue), value)
    ELSE Append(queue, value)

\* Publisher::new
PubInit ==
    /\ sequence_number = 0
    /\ current_value = None
    /\ update_rx = <<>>
    /\ clients = [c \in ClientIds |-> None]
    /\ clients_lock = None
    /\ publishers = [p \in PublishCallers |-> [pc |-> "idle"]]
    /\ sender = [pc |-> "unstarted"]
    /\ listener = [c \in ClientIds |-> "none"]
    /\ conn = [c \in ClientIds |->
                 [stage |-> "idle", sent |-> None, wire |-> <<>>]]
    /\ published = <<>>
    /\ returned = 0

\* Publisher::publish, `fetch_add(1, SeqCst)`
PublishFetchAdd(p, value) ==
    /\ publishers[p].pc = "idle"
    /\ sequence_number < scenario.max_publish
    /\ sequence_number' = fetch_add(sequence_number)
    /\ publishers' = [publishers EXCEPT ![p] =
                         [pc |-> "write", value |-> value,
                          seq |-> fetch_add(sequence_number)]]
    /\ published' = Append(published, value)
    /\ UNCHANGED <<current_value, update_rx, clients, clients_lock, sender,
                   listener, conn, returned>>
    /\ UNCHANGED <<auxVars, registryVars, globVars, subVars>>

\* Publisher::publish, "Update current value"
PublishWrite(p) ==
    /\ publishers[p].pc = "write"
    /\ current_value' = Some(publishers[p].value)
    /\ publishers' = [publishers EXCEPT ![p].pc = "send"]
    /\ UNCHANGED <<sequence_number, update_rx, clients, clients_lock, sender,
                   listener, conn>>
    /\ UNCHANGED <<published, returned>>
    /\ UNCHANGED <<auxVars, registryVars, globVars, subVars>>

\* Publisher::publish, "Notify all clients via broadcast", and its return
PublishSend(p) ==
    /\ publishers[p].pc = "send"
    /\ update_rx' = update_tx_send(update_rx, publishers[p].value)
    /\ publishers' = [publishers EXCEPT ![p] = [pc |-> "idle"]]
    /\ returned' = IF publishers[p].seq > returned THEN publishers[p].seq ELSE returned
    /\ UNCHANGED <<sequence_number, current_value, clients, clients_lock, sender,
                   listener, conn, published>>
    /\ UNCHANGED <<auxVars, registryVars, globVars, subVars>>

\* Publisher::start_update_sender: the receiver subscribes and the task
\* is spawned.
start_update_sender ==
    /\ sender.pc = "unstarted"
    /\ sender' = [pc |-> "recv"]
    /\ update_rx' = <<>>
    /\ UNCHANGED <<sequence_number, current_value, clients, clients_lock,
                   publishers, listener, conn>>
    /\ UNCHANGED <<published, returned>>
    /\ UNCHANGED <<auxVars, registryVars, globVars, subVars>>

\* The task of start_update_sender: `update_rx.recv().await` returns a value.
SenderRecv ==
    /\ sender.pc = "recv"
    /\ update_rx # <<>>
    /\ sender' = [pc |-> "load", new_value |-> Head(update_rx)]
    /\ update_rx' = Tail(update_rx)
    /\ UNCHANGED <<sequence_number, current_value, clients, clients_lock,
                   publishers, listener, conn>>
    /\ UNCHANGED <<published, returned>>
    /\ UNCHANGED <<auxVars, registryVars, globVars, subVars>>

\* The task of start_update_sender: `sequence_number.load(SeqCst)`.
SenderLoad ==
    /\ sender.pc = "load"
    /\ sender' = [pc |-> "lock", new_value |-> sender.new_value,
                  seq |-> sequence_number]
    /\ UNCHANGED <<sequence_number, current_value, update_rx, clients,
                   clients_lock, publishers, listener, conn>>
    /\ UNCHANGED <<published, returned>>
    /\ UNCHANGED <<auxVars, registryVars, globVars, subVars>>

\* The Publish message the task of start_update_sender builds.
publish_msg(service, seq, value) ==
    [type |-> "Publish", service |-> service, sequence |-> seq, value |-> value]

\* Faulty variant: the pass ends at the first client whose stream is broken
SendsTo_until_broken(c) ==
    /\ clients[c] # None
    /\ clients[c].subscription # None
    /\ should_send(clients[c].subscription, now, sender.new_value)
    /\ \A d \in ClientIds : d < c => conn[d].stage # "closed"

\* The clients the pass of the task of start_update_sender writes to.
SendsTo(c) ==
    /\ clients[c] # None
    /\ clients[c].subscription # None
    /\ should_send(clients[c].subscription, now, sender.new_value)

\* The task of start_update_sender from `clients.write().await` to the end
\* of the loop body: one pass over the clients under the write lock.  A
\* write to a stream whose peer has closed fails or is lost; `failed` are
\* the clients whose write returns Err.
SenderPass(failed) ==
    /\ sender.pc = "lock"
    /\ clients_lock = None
    /\ \A c \in failed : SendsTo(c) /\ conn[c].stage = "closed"
    /\ clients' =
          [c \in ClientIds |->
              IF ~SendsTo(c) THEN clients[c]
              ELSE IF c \in failed THEN None
              ELSE [clients[c] EXCEPT
                      !.subscription = mark_sent(@, now, sender.new_value)]]
    /\ conn' =
          [c \in ClientIds |->
              IF SendsTo(c) /\ conn[c].stage # "closed"
              THEN [conn[c] EXCEPT
                      !.wire = Append(@, publish_msg(clients[c].subscription.service,
                                                     sender.seq, sender.new_value))]
              ELSE conn[c]]
    /\ sender' = [pc |-> "recv"]
    /\ sent_at' =
          [c \in ClientIds |->
              IF SendsTo(c) /\ conn[c].stage # "closed"
              THEN Append(sent_at[c], now) ELSE sent_at[c]]
    /\ UNCHANGED <<sequence_number, current_value, update_rx, clients_lock,
                   publishers, listener>>
    /\ UNCHANGED <<published, returned, subscriber>>
    /\ UNCHANGED <<auxVars, registryVars, globVars>>

\* A subscriber connects to the publisher's address.
ClientConnect(c) ==
    /\ conn[c].stage = "idle"
    /\ conn' = [conn EXCEPT ![c].stage = "connected"]
    /\ UNCHANGED <<sequence_number, current_value, update_rx, clients,
                   clients_lock, publishers, sender, listener>>
    /\ UNCHANGED <<published, returned>>
    /\ UNCHANGED <<auxVars, registryVars, globVars, subVars>>

\* A connected subscriber writes its first message.
ClientSend(c, msg) ==
    /\ conn[c].stage = "connected"
    /\ conn[c].sent = None
    /\ conn' = [conn EXCEPT ![c].sent = msg]
    /\ UNCHANGED <<sequence_number, current_value, update_rx, clients,
                   clients_lock, publishers, sender, listener>>
    /\ UNCHANGED <<published, returned>>
    /\ UNCHANGED <<auxVars, registryVars, globVars, subVars>>

\* A subscriber closes its connection.
ClientClose(c) ==
    /\ conn[c].stage = "connected"
    /\ conn' = [conn EXCEPT ![c].stage = "closed"]
    /\ UNCHANGED <<sequence_number, current_value, update_rx, clients,
                   clients_lock, publishers, sender, listener>>
    /\ UNCHANGED <<published, returned>>
    /\ UNCHANGED <<auxVars, registryVars, globVars, subVars>>

\* Publisher::start, the accept loop: the client is inserted under the write
\* lock and its listener task spawned.
Accept(c) ==
    /\ sender.pc # "unstarted"
    /\ conn[c].stage # "idle"
    /\ listener[c] = "none"
    /\ clients_lock = None
    /\ clients' = [clients EXCEPT ![c] = [subscription |-> None]]
    /\ listener' = [listener EXCEPT ![c] = "spawned"]
    /\ UNCHANGED <<sequence_number, current_value, update_rx, clients_lock,
                   publishers, sender, conn>>
    /\ UNCHANGED <<published, returned>>
    /\ UNCHANGED <<auxVars, registryVars, globVars, subVars>>

\* The task of spawn_client_listener: `clients.write().await` and the
\* look-up of the client.
ListenerLock(c) ==
    /\ listener[c] = "spawned"
    /\ clients_lock = None
    /\ IF clients[c] = None
       THEN /\ listener' = [listener EXCEPT ![c] = "done"]
            /\ clients_lock' = clients_lock
       ELSE /\ listener' = [listener EXCEPT ![c] = "locked"]
            /\ clients_lock' = [listener |-> c]
    /\ UNCHANGED <<sequence_number, current_value, update_rx, clients,
                   publishers, sender, conn>>
    /\ UNCHANGED <<published, returned>>
    /\ UNCHANGED <<auxVars, registryVars, globVars, subVars>>

\* The task of spawn_client_listener from `MessageCodec::decode` on, with
\* the write lock held: a Subscribe is recorded and acknowledged with the
\* current value; anything else, or the end of the stream, removes the
\* client.  ack_ok is the outcome of writing the SubscribeAck.
ListenerHandle(c, ack_ok) ==
    /\ listener[c] = "locked"
    /\ conn[c].sent # None \/ conn[c].stage = "closed"
    /\ ack_ok \/ conn[c].stage = "closed"
    /\ IF conn[c].sent = None \/ conn[c].sent.type # "Subscribe"
       THEN /\ clients' = [clients EXCEPT ![c] = None]
            /\ conn' = [conn EXCEPT ![c].sent = None]
       ELSE /\ clients' = [clients EXCEPT ![c] =
                             IF ack_ok
                             THEN [subscription |->
                                     [service |-> conn[c].sent.service]
                                        @@ ClientSubscription_new(conn[c].sent.mode)]
                             ELSE None]
            /\ conn' = [conn EXCEPT
                          ![c].sent = None,
                          ![c].wire =
                             IF conn[c].stage # "closed"
                             THEN Append(@, [type |-> "SubscribeAck",
                                             success |-> TRUE,
                                             current_value |-> current_value])
                             ELSE @]
    /\ listener' = [listener EXCEPT ![c] = "done"]
    /\ clients_lock' = None
    /\ UNCHANGED <<sequence_number, current_value, update_rx, publishers, sender>>
    /\ UNCHANGED <<published, returned>>
    /\ UNCHANGED <<auxVars, registryVars, globVars, subVars>>

\* The clock advances.
PubTick ==
    /\ now < scenario.max_time
    /\ now' = now + 1
    /\ UNCHANGED <<scenario, services, watches, watchers, total_registrations,
                   pending, cleanupPc, reply, lease_end, open_at_store>>
    /\ UNCHANGED <<auxVars, pubVars, globVars, subVars>>

(***************************************************************************)
(* Subscriber (wind-client/src/subscriber.rs).  The registry look-up that  *)
(* opens Subscriber::subscribe is left out: the publisher's address is     *)
(* known.                                                                  *)
(***************************************************************************)
\* QosParams of the subscriptions: durability and max_queue_size (the
\* reliability is read by neither side).
QosChoices ==
    {[durability |-> d, max_queue_size |-> n] : d \in BOOLEAN, n \in {MaxQueueSize}}

\* The Subscribe message of Subscriber::subscribe.
subscribe_msg(mode, qos) ==
    [type |-> "Subscribe", service |-> TopicName, mode |-> mode, qos |-> qos]

SubInit ==
    /\ subscriber = [c \in ClientIds |->
                         [pc |-> "idle", mode |-> None, qos |-> None, read |-> 0,
                          queue |-> <<>>, lagged |-> FALSE, cancelled |-> FALSE,
                          yielded |-> <<>>]]
    /\ sent_at = [c \in ClientIds |-> <<>>]

\* broadcast::Sender::send on the Subscription's channel, whose capacity is
\* qos.max_queue_size: with the receiver dropped the value is lost; a full
\* queue loses its oldest value and the receiver has lagged.
tx_send(sub, value) ==
    IF sub.cancelled THEN sub
    ELSE IF Len(sub.queue) >= sub.qos.max_queue_size
    THEN [sub EXCEPT !.queue = Append(Tail(@), value), !.lagged = TRUE]
    ELSE [sub EXCEPT !.queue = Append(@, value)]

\* The subscriber's stream has ended: its connection is lost, or the
\* publisher has dropped the client.
stream_ended(c) ==
    \/ conn[c].stage = "closed"
    \/ listener[c] = "done" /\ clients[c] = None

\* Subscriber::subscribe from `Connection::connect` to the Subscribe message
\* sent.
Subscriber_subscribe(c, mode, qos) ==
    /\ subscriber[c].pc = "idle"
    /\ conn[c].stage = "idle"
    /\ conn' = [conn EXCEPT ![c].stage = "connected",
                            ![c].sent = subscribe_msg(mode, qos)]
    /\ subscriber' = [subscriber EXCEPT
                           ![c].pc = "await_ack", ![c].mode = mode, ![c].qos = qos]
    /\ UNCHANGED <<sequence_number, current_value, update_rx, clients,
                   clients_lock, publishers, sender, listener>>
    /\ UNCHANGED <<published, returned, sent_at>>
    /\ UNCHANGED <<auxVars, registryVars, globVars>>

\* Subscriber::subscribe, "Wait for acknowledgment": a successful
\* SubscribeAck queues its current value and starts the receiver task;
\* anything else, or the end of the stream, fails the call and drops the
\* connection.
Subscriber_ack(c) ==
    /\ subscriber[c].pc = "await_ack"
    /\ subscriber[c].read < Len(conn[c].wire) \/ stream_ended(c)
    /\ LET sub == subscriber[c]
           got == sub.read < Len(conn[c].wire) /\ conn[c].stage # "closed"
           msg == conn[c].wire[sub.read + 1]
       IN  IF got /\ msg.type = "SubscribeAck" /\ msg.success
           THEN /\ subscriber' =
                      [subscriber EXCEPT ![c] =
                          [(IF msg.current_value = None THEN sub
                            ELSE tx_send(sub, msg.current_value.some))
                           EXCEPT !.pc = "running", !.read = sub.read + 1]]
                /\ conn' = conn
           ELSE /\ subscriber' = [subscriber EXCEPT ![c].pc = "failed"]
                /\ conn' = [conn EXCEPT ![c].stage = "closed"]
    /\ UNCHANGED <<sequence_number, current_value, update_rx, clients,
                   clients_lock, publishers, sender, listener>>
    /\ UNCHANGED <<published, returned, sent_at>>
    /\ UNCHANGED <<auxVars, registryVars, globVars>>

\* One turn of the receiver task's `tokio::select!`: the cancel branch
\* (take_cancel, when the Subscription was cancelled) or the receive
\* branch.  A Publish is sent to the delivery queue; an Error message, a
\* failed receive or the cancel ends the task, which drops the connection.
ReceiverLoop(c, take_cancel) ==
    /\ subscriber[c].pc = "running"
    /\ IF take_cancel THEN subscriber[c].cancelled
       ELSE subscriber[c].read < Len(conn[c].wire) \/ stream_ended(c)
    /\ LET sub == subscriber[c]
           got == sub.read < Len(conn[c].wire) /\ conn[c].stage # "closed"
           msg == conn[c].wire[sub.read + 1]
       IN  IF ~take_cancel /\ got /\ msg.type # "Error"
           THEN /\ subscriber' =
                      [subscriber EXCEPT ![c] =
                          [(IF msg.type = "Publish" THEN tx_send(sub, msg.value)
                            ELSE sub)
                           EXCEPT !.read = sub.read + 1]]
                /\ conn' = conn
           ELSE /\ subscriber' = [subscriber EXCEPT ![c].pc = "exited"]
                /\ conn' = [conn EXCEPT ![c].stage = "closed"]
    /\ UNCHANGED <<sequence_number, current_value, update_rx, clients,
                   clients_lock, publishers, sender, listener>>
    /\ UNCHANGED <<published, returned, sent_at>>
    /\ UNCHANGED <<auxVars, registryVars, globVars>>

\* Subscription::next, when `receiver.recv().await` returns: Ok(value) is
\* Some(value), every Err is None.  recv returns Err(Lagged) once after the
\* queue lost values, Err(Closed) when the queue is empty and the receiver
\* task has ended, and waits while the queue is empty and the task runs.
Subscription_next(c) ==
    /\ subscriber[c].pc \in {"running", "exited"}
    /\ ~subscriber[c].cancelled
    /\ Len(subscriber[c].yielded) < MaxNext
    /\ LET sub == subscriber[c]
       IN  /\ sub.lagged \/ sub.queue # <<>> \/ sub.pc = "exited"
           /\ subscriber' =
                 [subscriber EXCEPT ![c] =
                     IF sub.lagged
                     THEN [sub EXCEPT !.lagged = FALSE,
                                      !.yielded = Append(@, None)]
                     ELSE IF sub.queue # <<>>
                     THEN [sub EXCEPT !.queue = Tail(@),
                                      !.yielded = Append(@, Some(Head(sub.queue)))]
                     ELSE [sub EXCEPT !.yielded = Append(@, None)]]
    /\ UNCHANGED <<pubVars, sent_at>>
    /\ UNCHANGED <<auxVars, registryVars, globVars>>

\* Subscription::cancel: the Subscription, with its receiver, is consumed
\* and the receiver task signalled.
Subscription_cancel(c) ==
    /\ subscriber[c].pc = "running"
    /\ ~subscriber[c].cancelled
    /\ subscriber' = [subscriber EXCEPT ![c].cancelled = TRUE]
    /\ UNCHANGED <<pubVars, sent_at>>
    /\ UNCHANGED <<auxVars, registryVars, globVars>>

(***************************************************************************)
(* Connection (wind-client/src/connection.rs).                             *)
(***************************************************************************)
\* Connection::new
Connection_new ==
    [stream |-> FALSE, reconnect_attempts |-> 0,
     max_reconnect_attempts |-> MaxReconnectAttempts,
     reconnect_delay |-> ReconnectDelayStart, pc |-> "idle", result |-> None]

ConnectionInit ==
    /\ connection = Connection_new
    /\ connect_log = [calls |-> 0, tried |-> 0, slept |-> <<>>]

\* std::cmp::min
min(a, b) == IF a <= b THEN a ELSE b

\* Connection::connect is called: with a stream it returns Ok at once,
\* otherwise it enters its loop.
Connection_connect ==
    /\ connection.pc = "idle"
    /\ connect_log.calls < MaxConnectCalls
    /\ connection' =
          IF connection.stream THEN [connection EXCEPT !.result = Some("Ok")]
          ELSE [connection EXCEPT !.pc = "connecting", !.result = None]
    /\ connect_log' = [calls |-> connect_log.calls + 1, tried |-> 0, slept |-> <<>>]
    /\ UNCHANGED <<rpc, codec, hosts, registry_conn>>
    /\ UNCHANGED <<registryVars, pubVars, globVars, subVars>>

\* Connection::connect, one `TcpStream::connect(..).await` and the match on
\* its outcome, up to the return or the sleep.
ConnectAttempt(ok) ==
    /\ connection.pc = "connecting"
    /\ connection' =
          IF ok
          THEN [connection EXCEPT !.stream = TRUE, !.reconnect_attempts = 0,
                                  !.pc = "idle", !.result = Some("Ok")]
          ELSE IF connection.reconnect_attempts + 1 > connection.max_reconnect_attempts
          THEN [connection EXCEPT !.reconnect_attempts = @ + 1,
                                  !.pc = "idle", !.result = Some("Err")]
          ELSE [connection EXCEPT !.reconnect_attempts = @ + 1, !.pc = "sleeping"]
    /\ connect_log' = [connect_log EXCEPT !.tried = @ + 1]
    /\ UNCHANGED <<rpc, codec, hosts, registry_conn>>
    /\ UNCHANGED <<registryVars, pubVars, globVars, subVars>>

\* Connection::connect, `tokio::time::sleep(self.reconnect_delay)` and the
\* doubling of the delay.
ConnectSleep ==
    /\ connection.pc = "sleeping"
    /\ connection' = [connection EXCEPT
                         !.reconnect_delay = min(@ * 2, ReconnectDelayCap),
                         !.pc = "connecting"]
    /\ connect_log' = [connect_log EXCEPT
                          !.slept = Append(@, connection.reconnect_delay)]
    /\ UNCHANGED <<rpc, codec, hosts, registry_conn>>
    /\ UNCHANGED <<registryVars, pubVars, globVars, subVars>>

\* Connection::send or Connection::receive fails on the stream: the
\* connection is marked disconnected.
StreamError ==
    /\ connection.pc = "idle"
    /\ connection.stream
    /\ connection' = [connection EXCEPT !.stream = FALSE, !.result = Some("Err")]
    /\ UNCHANGED <<connect_log, rpc, codec, hosts, registry_conn>>
    /\ UNCHANGED <<registryVars, pubVars, globVars, subVars>>

\* Connection::disconnect
Connection_disconnect ==
    /\ connection.pc = "idle"
    /\ connection.stream
    /\ connection' = [connection EXCEPT
                         !.stream = FALSE, !.reconnect_attempts = 0,
                         !.reconnect_delay = ReconnectDelayStart, !.result = None]
    /\ UNCHANGED <<connect_log, rpc, codec, hosts, registry_conn>>
    /\ UNCHANGED <<registryVars, pubVars, globVars, subVars>>

\* A Connection, the peer it connects to being up or down at each attempt.
NextConnection ==
    \/ Connection_connect
    \/ \E ok \in BOOLEAN : ConnectAttempt(ok)
    \/ ConnectSleep
    \/ StreamError
    \/ Connection_disconnect

(***************************************************************************)
(* RpcClient::call (wind-client/src/rpc_client.rs) and the task of         *)
(* RpcServer::handle_client (wind-server/src/rpc_server.rs) on one         *)
(* connection at a time.  The look-up of the service and the connect that  *)
(* open RpcClient::call succeed.                                           *)
(***************************************************************************)
\* The methods registered with the server, and the methods clients call.
Methods == {"add"}
CallMethods == {"add", "sub"}
\* What the handler of "add" returns: its value, or the text of its error.
HandlerValue == "sum"
HandlerError == "Protocol error: bad params"
\* The messages a client that is not an RpcClient may write.
RawMessages ==
    {[type |-> "RpcCall", method |-> m] : m \in CallMethods}
        \cup {[type |-> "Ping"], [type |-> "Heartbeat"]}

\* Result::Ok and Result::Err
Ok(v) == [ok |-> v]
Err(e) == [err |-> e]

RpcInit ==
    rpc = [client |-> [kind |-> "none", pc |-> "idle", call_id |-> 0],
           open |-> FALSE, server |-> "none",
           to_server |-> <<>>, to_client |-> <<>>,
           next_id |-> 1, sent |-> 0,
           calls |-> <<>>, responses |-> <<>>, returns |-> <<>>]

\* Faulty variant: the method name is left out
method_not_found_bare(method) == "Method not found"

\* RpcServer::handle_client, the error text for a method that is not
\* registered.
method_not_found(method) == "Method not found: " \o method

\* RpcServer::handle_client, `call_id: request.id`
response_call_id(request, response_id) == request.id

\* A connection is opened to the server and msg written on it: the accept
\* loop of RpcServer::start spawns handle_client.
rpc_open(kind, peer, msg) ==
    [rpc EXCEPT !.client = [kind |-> kind, pc |-> "awaiting", call_id |-> rpc.next_id],
                !.open = TRUE, !.server = peer,
                !.to_server = <<msg @@ [id |-> rpc.next_id]>>, !.to_client = <<>>,
                !.next_id = @ + 1, !.sent = @ + 1,
                !.calls = <<msg @@ [id |-> rpc.next_id]>>, !.responses = <<>>]

\* RpcClient::call up to `connection.send(&call_msg)`: a fresh connection
\* and the RpcCall, a new message with a new id.  The service found at the
\* registry is an RpcServer (its task then waits in decode) or some other
\* implementation of the protocol.
RpcClient_call(method, peer) ==
    /\ rpc.client.pc = "idle"
    /\ rpc.server \in {"none", "closed", "other"}
    /\ rpc.sent < MaxRpcCalls
    /\ rpc' = rpc_open("RpcClient", peer, [type |-> "RpcCall", method |-> method])
    /\ UNCHANGED <<connection, connect_log, codec, hosts, registry_conn>>
    /\ UNCHANGED <<registryVars, pubVars, globVars, subVars>>

\* RpcClient::call from `connection.receive()` to its return, which drops
\* the connection: the result of an RpcResponse, whatever its call_id, or a
\* Protocol error.
RpcClient_return ==
    /\ rpc.client.kind = "RpcClient"
    /\ rpc.client.pc = "awaiting"
    /\ rpc.to_client # <<>>
    /\ LET response == Head(rpc.to_client)
           result ==
               IF response.type # "RpcResponse" THEN Err("Protocol error: Unexpected response")
               ELSE IF "ok" \in DOMAIN response.result THEN response.result
               ELSE Err("Protocol error: " \o response.result.err)
       IN  rpc' = [rpc EXCEPT
                     !.client.pc = "idle", !.open = FALSE,
                     !.to_client = Tail(@),
                     !.returns = Append(@, [call_id |-> rpc.client.call_id,
                                            response |-> response,
                                            result |-> result])]
    /\ UNCHANGED <<connection, connect_log, codec, hosts, registry_conn>>
    /\ UNCHANGED <<registryVars, pubVars, globVars, subVars>>

\* A client that is no RpcClient opens a connection or writes a further
\* message on the one it has.
RawSend(msg) ==
    /\ rpc.sent < MaxRpcCalls
    /\ \/ /\ rpc.client.pc = "idle"
          /\ rpc.server \in {"none", "closed", "other"}
          /\ rpc' = rpc_open("raw", "decode", msg)
       \/ /\ rpc.client.kind = "raw"
          /\ rpc.client.pc = "awaiting"
          /\ rpc' = [rpc EXCEPT
                       !.to_server = Append(@, msg @@ [id |-> rpc.next_id]),
                       !.calls = Append(@, msg @@ [id |-> rpc.next_id]),
                       !.next_id = @ + 1, !.sent = @ + 1]
    /\ UNCHANGED <<connection, connect_log, codec, hosts, registry_conn>>
    /\ UNCHANGED <<registryVars, pubVars, globVars, subVars>>

\* That client closes its connection.
RawClose ==
    /\ rpc.client.kind = "raw"
    /\ rpc.client.pc = "awaiting"
    /\ rpc' = [rpc EXCEPT !.client.pc = "idle", !.open = FALSE]
    /\ UNCHANGED <<connection, connect_log, codec, hosts, registry_conn>>
    /\ UNCHANGED <<registryVars, pubVars, globVars, subVars>>

\* A peer that is not an RpcServer answers the RpcCall with an RpcResponse
\* of its own making: the bytes that MessageCodec::decode reads in
\* Connection::receive.
PeerRespond(call_id) ==
    /\ rpc.server = "other"
    /\ rpc.open
    /\ rpc.to_server # <<>>
    /\ rpc' = [rpc EXCEPT
                 !.to_server = Tail(@),
                 !.to_client = Append(@, [id |-> rpc.next_id, type |-> "RpcResponse",
                                          call_id |-> call_id,
                                          result |-> Ok(HandlerValue)]),
                 !.next_id = @ + 1]
    /\ UNCHANGED <<connection, connect_log, codec, hosts, registry_conn>>
    /\ UNCHANGED <<registryVars, pubVars, globVars, subVars>>

\* RpcServer::handle_client, one turn of the loop on a decoded request.  An
\* RpcCall is answered by one RpcResponse: the outcome of the registered
\* handler (which may also never complete), or "Method not found"; a Ping
\* by a Pong; anything else is ignored.  A failed write ends the task.
ServerHandle(outcome) ==
    /\ rpc.server = "decode"
    /\ rpc.to_server # <<>>
    /\ LET request == Head(rpc.to_server)
           registered == request.type = "RpcCall" /\ request.method \in Methods
           result ==
               IF ~registered THEN Err(method_not_found(request.method))
               ELSE IF outcome = "Ok" THEN Ok(HandlerValue)
               ELSE Err(HandlerError)
           response ==
               IF request.type = "RpcCall"
               THEN [id |-> rpc.next_id, type |-> "RpcResponse",
                     call_id |-> response_call_id(request, rpc.next_id),
                     result |-> result]
               ELSE [id |-> rpc.next_id, type |-> "Pong"]
       IN  /\ registered \/ outcome = "Ok"
           /\ rpc' =
                 IF registered /\ outcome = "hang"
                 THEN [rpc EXCEPT !.to_server = Tail(@), !.server = "hung"]
                 ELSE IF request.type \notin {"RpcCall", "Ping"}
                 THEN [rpc EXCEPT !.to_server = Tail(@)]
                 ELSE IF ~rpc.open
                 THEN [rpc EXCEPT !.to_server = Tail(@), !.server = "closed"]
                 ELSE [rpc EXCEPT !.to_server = Tail(@),
                                  !.to_client = Append(@, response),
                                  !.responses = Append(@, response),
                                  !.next_id = @ + 1]
    /\ UNCHANGED <<connection, connect_log, codec, hosts, registry_conn>>
    /\ UNCHANGED <<registryVars, pubVars, globVars, subVars>>

\* RpcServer::handle_client: decode fails at the end of the stream and the
\* task ends.
ServerEof ==
    /\ rpc.server = "decode"
    /\ rpc.to_server = <<>>
    /\ ~rpc.open
    /\ rpc' = [rpc EXCEPT !.server = "closed"]
    /\ UNCHANGED <<connection, connect_log, codec, hosts, registry_conn>>
    /\ UNCHANGED <<registryVars, pubVars, globVars, subVars>>

\* An RPC server and its clients.
NextRpc ==
    \/ \E method \in CallMethods, peer \in {"decode", "other"} : RpcClient_call(method, peer)
    \/ \E call_id \in 0 .. rpc.next_id : PeerRespond(call_id)
    \/ RpcClient_return
    \/ \E msg \in RawMessages : RawSend(msg)
    \/ RawClose
    \/ \E outcome \in {"Ok", "Err", "hang"} : ServerHandle(outcome)
    \/ ServerEof

\* The tasks of the client and of the server are scheduled.
RpcFairness ==
    /\ WF_vars(RpcClient_return)
    /\ WF_vars(\E outcome \in {"Ok", "Err", "hang"} : ServerHandle(outcome))
    /\ WF_vars(ServerEof)

(***************************************************************************)
(* Publisher::start and RpcServer::start as seen by the registry: the      *)
(* registration on start and the heartbeat task of the publisher           *)
(* (wind-server/src/publisher.rs, wind-server/src/rpc_server.rs).          *)
(***************************************************************************)
\* Two publishers of the same name on different addresses, and an RPC
\* server: what register_service sends for each.  pub1 and rpc1 have the
\* defaults of new(), pub2 was built with with_schema and with_tags.
HostInfo ==
    [pub1 |-> ServiceInfo("SENSOR/X", "10.0.0.1:4001", "Publisher", DefaultTtlMs, <<>>),
     pub2 |-> [ServiceInfo("SENSOR/X", "10.0.0.2:4002", "Publisher", DefaultTtlMs,
                           <<"lab">>)
                 EXCEPT !.schema_id = Some("sensor-v1")],
     rpc1 |-> ServiceInfo("OTHER/Y", "10.0.0.3:4003", "RpcServer", DefaultTtlMs, <<>>)]
Hosts == DOMAIN HostInfo
PublisherHosts == {h \in Hosts : HostInfo[h].service_type = "Publisher"}

LifecycleScenario ==
    [catalog |-> {HostInfo[h] : h \in Hosts}, patterns |-> {}, conns |-> WatchConns,
     max_registrations |-> MaxLifecycleRegistrations, max_time |-> MaxLifecycleTime]

\* The RegisterService of the heartbeat task: the name, the address and the
\* TTL of the publisher, `schema_id: None` and `tags: Vec::new()`.
heartbeat_info(h) == [HostInfo[h] EXCEPT !.schema_id = None, !.tags = <<>>]

HeartbeatScenario ==
    [catalog |-> {HostInfo[h] : h \in Hosts}, patterns |-> {"SENSOR/*"},
     conns |-> WatchConns, max_registrations |-> MaxLifecycleRegistrations,
     max_time |-> MaxLifecycleTime]

HostsInit == hosts = [h \in Hosts |-> [started |-> FALSE, last_beat |-> None]]

\* The heartbeat timer of h has a tick that the task has not taken: the
\* first tick of a tokio interval completes at once, the later ones every
\* heartbeat_interval.
HeartbeatDue(h) ==
    /\ h \in PublisherHosts
    /\ hosts[h].started
    /\ \/ hosts[h].last_beat = None
       \/ /\ hosts[h].last_beat # None
          /\ now >= hosts[h].last_beat.some + HeartbeatIntervalMs

\* Publisher::start and RpcServer::start up to the accept loop:
\* register_service sends RegisterService and the registry stores it.  The
\* publisher also spawns its heartbeat task; the RPC server spawns nothing.
Service_start(h, c) ==
    /\ ~hosts[h].started
    /\ register_store(c, HostInfo[h])
    /\ hosts' = [hosts EXCEPT ![h].started = TRUE]
    /\ UNCHANGED <<connection, connect_log, rpc, codec, registry_conn>>
    /\ UNCHANGED <<pubVars, globVars, subVars>>

\* One turn of the loop of Publisher::start_heartbeat_task: the timer
\* ticks and RegisterService is sent again, which the registry stores.
Heartbeat(h, c) ==
    /\ HeartbeatDue(h)
    /\ register_store(c, heartbeat_info(h))
    /\ hosts' = [hosts EXCEPT ![h].last_beat = Some(now)]
    /\ UNCHANGED <<connection, connect_log, rpc, codec, registry_conn>>
    /\ UNCHANGED <<pubVars, globVars, subVars>>

\* Time passes by one period of the registry's cleanup task, once the
\* heartbeats that are due have been sent.
Advance ==
    /\ now < scenario.max_time
    /\ \A h \in Hosts : ~HeartbeatDue(h)
    /\ now' = now + CleanupIntervalMs
    /\ reply' = NoReply
    /\ UNCHANGED <<scenario, services, watches, watchers, total_registrations,
                   pending, cleanupPc, lease_end, open_at_store>>
    /\ UNCHANGED <<auxVars, pubVars, globVars, subVars>>

\* Services starting, heartbeating and being looked up while time passes.
NextLifecycle ==
    \/ \E h \in Hosts, c \in scenario.conns : Service_start(h, c)
    \/ \E h \in Hosts, c \in scenario.conns : Heartbeat(h, c)
    \/ \E c \in scenario.conns : RegisterNotify(c)
    \/ Advance
    \/ \E n \in CatalogNames : Lookup(n)
    \/ CleanupServices
    \/ CleanupWatches

\* One publisher built with a schema and tags, heartbeating while clients
\* discover it.
NextHeartbeat ==
    \/ \E c \in scenario.conns : Service_start("pub2", c)
    \/ \E c \in scenario.conns : Heartbeat("pub2", c)
    \/ \E c \in scenario.conns : RegisterNotify(c)
    \/ Advance
    \/ \E p \in scenario.patterns : Discover(p)
    \/ CleanupServices
    \/ CleanupWatches

(***************************************************************************)
(* MessageCodec (wind-core/src/codec.rs).  A byte string is a sequence of  *)
(* runs [b, n], n copies of the byte b, so that strings of 16 MiB can be   *)
(* written down; bincode is the 1.x default: fixed-width little-endian     *)
(* integers, u64 lengths, u32 variant indices, a Uuid as 16 bytes with     *)
(* their length.                                                           *)
(***************************************************************************)
Run(b, n) == [b |-> b, n |-> n]
Explicit(bytes) == [i \in DOMAIN bytes |-> Run(bytes[i], 1)]

RECURSIVE RLen(_)
RLen(r) == IF r = <<>> THEN 0 ELSE Head(r).n + RLen(Tail(r))

RECURSIVE RTake(_, _)
RTake(r, k) ==
    IF k = 0 \/ r = <<>> THEN <<>>
    ELSE IF Head(r).n <= k THEN <<Head(r)>> \o RTake(Tail(r), k - Head(r).n)
    ELSE <<Run(Head(r).b, k)>>

RECURSIVE RDrop(_, _)
RDrop(r, k) ==
    IF k = 0 \/ r = <<>> THEN r
    ELSE IF Head(r).n <= k THEN RDrop(Tail(r), k - Head(r).n)
    ELSE <<Run(Head(r).b, Head(r).n - k)>> \o Tail(r)

RECURSIVE Expand(_)
Expand(r) ==
    IF r = <<>> THEN <<>>
    ELSE IF Head(r).n = 1 THEN <<Head(r).b>> \o Expand(Tail(r))
    ELSE <<Head(r).b>> \o Expand(<<Run(Head(r).b, Head(r).n - 1)>> \o Tail(r))

\* The k bytes of data at offset off
Field(data, off, k) == Expand(RTake(RDrop(data, off), k))
Has(data, off, k) == RLen(data) >= off + k

\* Faulty variant: the prefix written least significant byte first
u32_le_bytes(n) ==
    <<n % 256, (n \div 256) % 256, (n \div 65536) % 256, n \div 16777216>>

\* BufMut::put_u32: the four bytes of n, most significant first
u32_be_bytes(n) ==
    <<n \div 16777216, (n \div 65536) % 256, (n \div 256) % 256, n % 256>>

\* AsyncReadExt::read_u32: big-endian.  Values of 2^31 and more stand for
\* themselves as "more than any size here".
read_u32(bytes) ==
    IF bytes[1] >= 128 THEN 2147483647
    ELSE bytes[1] * 16777216 + bytes[2] * 65536 + bytes[3] * 256 + bytes[4]

\* bincode: an integer of k bytes, least significant first
le_bytes(n, k) ==
    [i \in 1..k |-> IF i > 4 THEN 0
                    ELSE IF i = 4 THEN n \div 16777216
                    ELSE (n \div (256 ^ (i - 1))) % 256]
from_le(bytes) ==
    IF \E i \in DOMAIN bytes : (i > 4 /\ bytes[i] # 0) \/ (i = 4 /\ bytes[i] >= 128)
    THEN 2147483647
    ELSE bytes[1] + bytes[2] * 256 + bytes[3] * 65536 + bytes[4] * 16777216

\* The variant indices of MessagePayload, in the order of the enum
VariantIndex == [DiscoverServices |-> 2, Heartbeat |-> 10, Ping |-> 11]
VariantOf(k) == CHOOSE t \in DOMAIN VariantIndex : VariantIndex[t] = k

\* bincode::serialize of a Message whose payload is DiscoverServices,
\* Heartbeat or Ping
serialize(msg) ==
    Explicit(le_bytes(16, 8) \o msg.id \o le_bytes(msg.timestamp_us, 8)
             \o le_bytes(VariantIndex[msg.payload.type], 4))
    \o IF msg.payload.type = "DiscoverServices"
       THEN Explicit(le_bytes(RLen(msg.payload.pattern), 8)) \o msg.payload.pattern
       ELSE <<>>

SerializationError == Err([kind |-> "Serialization"])

\* bincode::deserialize to a Message: the fields in order, each read only
\* if the bytes are there; bytes after the message are allowed.  Variants
\* other than the three above do not occur in the data given here.
deserialize(data) ==
    IF ~Has(data, 0, 36) THEN SerializationError
    ELSE IF from_le(Field(data, 0, 8)) # 16 THEN SerializationError
    ELSE IF from_le(Field(data, 32, 4)) \notin {VariantIndex[t] : t \in DOMAIN VariantIndex}
    THEN SerializationError
    ELSE LET id == Field(data, 8, 16)
             timestamp_us == from_le(Field(data, 24, 8))
             type == VariantOf(from_le(Field(data, 32, 4)))
         IN  IF type # "DiscoverServices"
             THEN Ok([id |-> id, timestamp_us |-> timestamp_us, payload |-> [type |-> type]])
             ELSE IF ~Has(data, 36, 8) THEN SerializationError
             ELSE IF ~Has(data, 44, from_le(Field(data, 36, 8))) THEN SerializationError
             ELSE Ok([id |-> id, timestamp_us |-> timestamp_us,
                      payload |-> [type |-> type,
                                   pattern |-> RTake(RDrop(data, 44),
                                                     from_le(Field(data, 36, 8)))]])

\* Faulty variant: a size equal to the limit is refused too
too_large_at_cap(len) == len >= MAX_MESSAGE_SIZE

\* `data.len() > MAX_MESSAGE_SIZE`, `len > MAX_MESSAGE_SIZE`
too_large(len) == len > MAX_MESSAGE_SIZE

\* MessageCodec::encode
encode(msg) ==
    LET data == serialize(msg)
    IN  IF too_large(RLen(data))
        THEN Err([kind |-> "Protocol", len |-> RLen(data)])
        ELSE Ok(Explicit(u32_be_bytes(RLen(data))) \o data)

\* MessageCodec::decode on a reader that holds the bytes of stream and then
\* ends: the result, the size of the buffer allocated and the number of
\* bytes read.
decode(stream) ==
    IF ~Has(stream, 0, 4)
    THEN [result |-> Err([kind |-> "Io"]), allocated |-> 0, consumed |-> RLen(stream)]
    ELSE LET len == read_u32(Field(stream, 0, 4))
         IN  IF too_large(len)
             THEN [result |-> Err([kind |-> "Protocol", len |-> len]),
                   allocated |-> 0, consumed |-> 4]
             ELSE IF ~Has(stream, 4, len)
             THEN [result |-> Err([kind |-> "Io"]), allocated |-> len,
                   consumed |-> RLen(stream)]
             ELSE [result |-> deserialize(RTake(RDrop(stream, 4), len)),
                   allocated |-> len, consumed |-> 4 + len]

Uuid(k) == [i \in 1..16 |-> IF i = 16 THEN k ELSE 0]

\* The size of a DiscoverServices message without its pattern
DiscoverOverhead ==
    RLen(serialize([id |-> Uuid(0), timestamp_us |-> 0,
                    payload |-> [type |-> "DiscoverServices", pattern |-> <<>>]]))

\* Patterns: empty, one byte, and of the lengths that bring the message to
\* one byte under the limit, to the limit and to one byte over it.
CodecPatterns ==
    {<<>>} \cup
    {<<Run(97, n)>> : n \in {1, MAX_MESSAGE_SIZE - DiscoverOverhead - 1,
                             MAX_MESSAGE_SIZE - DiscoverOverhead,
                             MAX_MESSAGE_SIZE - DiscoverOverhead + 1}}

CodecMessages ==
    {[id |-> Uuid(k), timestamp_us |-> t, payload |-> p] :
        k \in 1..MaxCodecIds, t \in {0, CodecTimestamp},
        p \in {[type |-> "Heartbeat"], [type |-> "Ping"]}
              \cup {[type |-> "DiscoverServices", pattern |-> q] : q \in CodecPatterns}}

\* What a peer may put on the stream instead: a prefix that is the limit,
\* one more, or huge, or small, followed by no bytes, few or as many as the
\* limit; or less than a prefix.
RawStreams ==
    {Explicit(prefix) \o payload :
        prefix \in {u32_be_bytes(MAX_MESSAGE_SIZE), u32_be_bytes(MAX_MESSAGE_SIZE + 1),
                    <<255, 255, 255, 255>>, u32_be_bytes(8)},
        payload \in {<<>>, <<Run(0, 8)>>, <<Run(0, MAX_MESSAGE_SIZE)>>}}
    \cup {<<>>, Explicit(<<0, 0>>)}

codec_idle ==
    [pc |-> "idle", msg |-> None, wire |-> None, stream |-> <<>>,
     out |-> None, allocated |-> 0, consumed |-> 0]

CodecInit == codec = codec_idle

\* MessageCodec::encode(msg)
Codec_encode(msg) ==
    /\ codec.pc = "idle"
    /\ codec' = [codec EXCEPT !.pc = "encoded", !.msg = Some(msg), !.wire = encode(msg)]
    /\ UNCHANGED <<connection, connect_log, rpc, hosts, registry_conn>>
    /\ UNCHANGED <<registryVars, pubVars, globVars, subVars>>

\* MessageCodec::write after encode: write_all puts the bytes on the stream.
Codec_write ==
    /\ codec.pc = "encoded"
    /\ "ok" \in DOMAIN codec.wire
    /\ codec' = [codec EXCEPT !.pc = "written", !.stream = codec.wire.ok]
    /\ UNCHANGED <<connection, connect_log, rpc, hosts, registry_conn>>
    /\ UNCHANGED <<registryVars, pubVars, globVars, subVars>>

\* A peer writes bytes of its own to the stream.
Codec_feed(stream) ==
    /\ codec.pc = "idle"
    /\ codec' = [codec EXCEPT !.pc = "written", !.stream = stream]
    /\ UNCHANGED <<connection, connect_log, rpc, hosts, registry_conn>>
    /\ UNCHANGED <<registryVars, pubVars, globVars, subVars>>

\* MessageCodec::decode(reader)
Codec_decode ==
    /\ codec.pc = "written"
    /\ LET d == decode(codec.stream)
       IN  codec' = [codec EXCEPT !.pc = "decoded", !.out = Some(d.result),
                                  !.allocated = d.allocated, !.consumed = d.consumed]
    /\ UNCHANGED <<connection, connect_log, rpc, hosts, registry_conn>>
    /\ UNCHANGED <<registryVars, pubVars, globVars, subVars>>

\* The next use of the codec starts.
Codec_done ==
    /\ codec.pc # "idle"
    /\ codec' = codec_idle
    /\ UNCHANGED <<connection, connect_log, rpc, hosts, registry_conn>>
    /\ UNCHANGED <<registryVars, pubVars, globVars, subVars>>

NextCodec ==
    \/ \E msg \in CodecMessages : Codec_encode(msg)
    \/ Codec_write
    \/ \E stream \in RawStreams : Codec_feed(stream)
    \/ Codec_decode
    \/ Codec_done

(***************************************************************************)
(* A connection to the registry: RegistryServer::handle_client and         *)
(* handle_message (wind-registry/src/server.rs).                           *)
(***************************************************************************)
DispatchCatalog ==
    { ServiceInfo("SENSOR/X", "10.0.0.1:4001", "Publisher", 1, <<>>),
      ServiceInfo("OTHER/Y", "10.0.0.3:4003", "Publisher", 1, <<>>) }
DispatchPatterns == {"SENSOR/*", "SENSOR/[X"}

DispatchScenario ==
    [catalog |-> DispatchCatalog, patterns |-> DispatchPatterns, conns |-> Conns,
     max_registrations |-> MaxRegistrations, max_time |-> 0]

\* What a client writes on the connection: the requests the registry
\* answers, a payload it does not handle, and bytes that do not decode.
RegistryRequests ==
    {[type |-> "RegisterService", info |-> i] : i \in scenario.catalog}
        \cup {[type |-> "DiscoverServices", pattern |-> p] : p \in scenario.patterns}
        \cup {[type |-> "Ping"], [type |-> "Heartbeat"], [type |-> "malformed"]}

RegistryConnInit ==
    registry_conn = [c \in Conns |->
                       [stage |-> "idle", task |-> "none", inbox |-> <<>>,
                        handled |-> <<>>, outbox |-> <<>>]]

\* Faulty variant: a payload that is not handled is answered with an Error
handle_message_answering(msg) ==
    CASE msg.type = "DiscoverServices" ->
            LET found == discover_services(msg.pattern)
            IN  IF found.ok
                THEN Some([type |-> "ServicesDiscovered", services |-> found.services])
                ELSE Some([type |-> "Error", error |-> found.error])
      [] msg.type = "Ping" -> Some([type |-> "Pong"])
      [] OTHER -> Some([type |-> "Error", error |-> "Unhandled"])

\* RegistryServer::handle_message for the payloads that leave the registry
\* as it is: the response, if any.
handle_message(msg) ==
    CASE msg.type = "DiscoverServices" ->
            LET found == discover_services(msg.pattern)
            IN  IF found.ok
                THEN Some([type |-> "ServicesDiscovered", services |-> found.services])
                ELSE Some([type |-> "Error", error |-> found.error])
      [] msg.type = "Ping" -> Some([type |-> "Pong"])
      [] OTHER -> None

\* `MessageCodec::write(&mut socket, &response).await?` on connection c: the
\* response is written, or the write fails on a stream the client has
\* closed and the task ends.
registry_write(c, taken, response) ==
    IF registry_conn[c].stage = "closed"
    THEN [registry_conn EXCEPT ![c].inbox = taken, ![c].task = "ended"]
    ELSE [registry_conn EXCEPT ![c].inbox = taken, ![c].task = "decode",
                               ![c].outbox = Append(@, response)]

\* A client connects to the registry: the accept loop spawns handle_client.
RegistryConnect(c) ==
    /\ registry_conn[c].stage = "idle"
    /\ registry_conn' = [registry_conn EXCEPT ![c].stage = "open", ![c].task = "decode"]
    /\ UNCHANGED <<connection, connect_log, rpc, codec, hosts>>
    /\ UNCHANGED <<registryVars, pubVars, globVars, subVars>>

\* The client writes a request.
RegistrySend(c, msg) ==
    /\ registry_conn[c].stage = "open"
    /\ registry_conn[c].task # "ended"
    /\ Len(registry_conn[1].inbox) + Len(registry_conn[1].handled)
         + Len(registry_conn[2].inbox) + Len(registry_conn[2].handled)
           < MaxRegistryRequests
    /\ registry_conn' = [registry_conn EXCEPT ![c].inbox = Append(@, msg)]
    /\ UNCHANGED <<connection, connect_log, rpc, codec, hosts>>
    /\ UNCHANGED <<registryVars, pubVars, globVars, subVars>>

\* The client closes the connection.
RegistryClientClose(c) ==
    /\ registry_conn[c].stage = "open"
    /\ registry_conn' = [registry_conn EXCEPT ![c].stage = "closed"]
    /\ UNCHANGED <<connection, connect_log, rpc, codec, hosts>>
    /\ UNCHANGED <<registryVars, pubVars, globVars, subVars>>

\* One turn of the loop of handle_client: decode, handle_message and the
\* write of the response.  Bytes that do not decode, and the end of the
\* stream, end the task, which drops the socket.  For RegisterService the
\* turn goes on in RegistryRegistered.
RegistryHandle(c) ==
    /\ registry_conn[c].task = "decode"
    /\ \/ /\ registry_conn[c].inbox = <<>>
          /\ registry_conn[c].stage = "closed"
          /\ registry_conn' = [registry_conn EXCEPT ![c].task = "ended"]
          /\ UNCHANGED registryVars
       \/ /\ registry_conn[c].inbox # <<>>
          /\ LET msg == Head(registry_conn[c].inbox)
                 taken == Tail(registry_conn[c].inbox)
                 noted == [registry_conn EXCEPT ![c].handled = Append(@, msg)]
             IN  IF msg.type = "malformed"
                 THEN /\ registry_conn' = [noted EXCEPT ![c].inbox = <<>>,
                                                        ![c].task = "ended"]
                      /\ UNCHANGED registryVars
                 ELSE IF msg.type = "RegisterService"
                 THEN /\ register_store(c, msg.info)
                      /\ registry_conn' = [noted EXCEPT ![c].inbox = taken,
                                                        ![c].task = "registering"]
                 ELSE /\ registry_conn' =
                            IF handle_message(msg) = None
                            THEN [noted EXCEPT ![c].inbox = taken]
                            ELSE [c2 \in Conns |->
                                    IF c2 = c
                                    THEN [registry_write(c, taken, handle_message(msg).some)[c]
                                            EXCEPT !.handled = Append(@, msg)]
                                    ELSE registry_conn[c2]]
                      /\ UNCHANGED registryVars
    /\ UNCHANGED <<connection, connect_log, rpc, codec, hosts>>
    /\ UNCHANGED <<pubVars, globVars, subVars>>

\* The turn for a RegisterService from notify_watchers on: the
\* registration completes and ServiceRegistered is written.
RegistryRegistered(c) ==
    /\ registry_conn[c].task = "registering"
    /\ register_notify(c)
    /\ registry_conn' =
          registry_write(c, registry_conn[c].inbox,
                         [type |-> "ServiceRegistered", service |-> pending[c].name,
                          success |-> TRUE])
    /\ UNCHANGED <<connection, connect_log, rpc, codec, hosts>>
    /\ UNCHANGED <<pubVars, globVars, subVars>>

\* The registry serving two connections.
NextDispatch ==
    \/ \E c \in scenario.conns : RegistryConnect(c)
    \/ \E c \in scenario.conns, msg \in RegistryRequests : RegistrySend(c, msg)
    \/ \E c \in scenario.conns : RegistryClientClose(c)
    \/ \E c \in scenario.conns : RegistryHandle(c)
    \/ \E c \in scenario.conns : RegistryRegistered(c)

AuxInit ==
    /\ ConnectionInit
    /\ RpcInit
    /\ HostsInit
    /\ CodecInit
    /\ RegistryConnInit

\* The publisher, the tasks calling publish and the subscribers.
NextPub ==
    \/ PubTick
    \/ \E p \in PublishCallers, v \in Values : PublishFetchAdd(p, v)
    \/ \E p \in PublishCallers : PublishWrite(p)
    \/ \E p \in PublishCallers : PublishSend(p)
    \/ start_update_sender
    \/ SenderRecv
    \/ SenderLoad
    \/ \E failed \in SUBSET ClientIds : SenderPass(failed)
    \/ \E c \in scenario.conns : ClientConnect(c)
    \/ \E c \in scenario.conns, msg \in ClientMessages : ClientSend(c, msg)
    \/ \E c \in scenario.conns : ClientClose(c)
    \/ \E c \in scenario.conns : Accept(c)
    \/ \E c \in scenario.conns : ListenerLock(c)
    \/ \E c \in scenario.conns, ack_ok \in BOOLEAN : ListenerHandle(c, ack_ok)

\* The publisher with one on-change subscriber and one task publishing
\* OnChangeScript.
NextOnChange ==
    \/ \E p \in {1} : PublishFetchAdd(p, OnChangeScript[sequence_number + 1])
    \/ \E p \in {1} : PublishWrite(p)
    \/ \E p \in {1} : PublishSend(p)
    \/ start_update_sender
    \/ SenderRecv
    \/ SenderLoad
    \/ SenderPass({})
    \/ \E c \in scenario.conns : ClientConnect(c)
    \/ \E c \in scenario.conns : ClientSend(c, OnChangeSubscribe)
    \/ \E c \in scenario.conns : Accept(c)
    \/ \E c \in scenario.conns : ListenerLock(c)
    \/ \E c \in scenario.conns : ListenerHandle(c, TRUE)

\* The publisher with one task calling publish and one subscriber that
\* uses Subscriber::subscribe and the Subscription it returns.
NextSub ==
    \/ \E p \in {1}, v \in Values : PublishFetchAdd(p, v)
    \/ \E p \in {1} : PublishWrite(p)
    \/ \E p \in {1} : PublishSend(p)
    \/ start_update_sender
    \/ SenderRecv
    \/ SenderLoad
    \/ \E failed \in SUBSET scenario.conns : SenderPass(failed)
    \/ \E c \in scenario.conns, mode \in SubscriptionModes, qos \in QosChoices :
          Subscriber_subscribe(c, mode, qos)
    \/ \E c \in scenario.conns : Accept(c)
    \/ \E c \in scenario.conns : ListenerLock(c)
    \/ \E c \in scenario.conns, ack_ok \in BOOLEAN : ListenerHandle(c, ack_ok)
    \/ \E c \in scenario.conns : Subscriber_ack(c)
    \/ \E c \in scenario.conns, take_cancel \in BOOLEAN : ReceiverLoop(c, take_cancel)
    \/ \E c \in scenario.conns : Subscription_next(c)
    \/ \E c \in scenario.conns : Subscription_cancel(c)
    \/ \E c \in scenario.conns : ClientClose(c)

\* The publisher with one task calling publish, a clock, and one Periodic
\* subscriber whose connection stays up.
NextPeriodic ==
    \/ PubTick
    \/ \E p \in {1}, v \in Values : PublishFetchAdd(p, v)
    \/ \E p \in {1} : PublishWrite(p)
    \/ \E p \in {1} : PublishSend(p)
    \/ start_update_sender
    \/ SenderRecv
    \/ SenderLoad
    \/ SenderPass({})
    \/ \E c \in scenario.conns, qos \in QosChoices :
          Subscriber_subscribe(c, PeriodicMode, qos)
    \/ \E c \in scenario.conns : Accept(c)
    \/ \E c \in scenario.conns : ListenerLock(c)
    \/ \E c \in scenario.conns : ListenerHandle(c, TRUE)
    \/ \E c \in scenario.conns : Subscriber_ack(c)
    \/ \E c \in scenario.conns : ReceiverLoop(c, FALSE)
    \/ \E c \in scenario.conns : Subscription_next(c)

\* The publisher with one task publishing StallScript, one OnChange
\* subscriber whose connection stays up, and one client that connects and
\* then sends nothing, sends a message that is no Subscribe, or closes.
NextStall ==
    \/ \E p \in {1} : PublishFetchAdd(p, StallScript[sequence_number + 1])
    \/ \E p \in {1} : PublishWrite(p)
    \/ \E p \in {1} : PublishSend(p)
    \/ start_update_sender
    \/ SenderRecv
    \/ SenderLoad
    \/ SenderPass({})
    \/ \E c \in scenario.conns, qos \in QosChoices :
          Subscriber_subscribe(c, [kind |-> "OnChange"], qos)
    \/ \E c \in scenario.conns : Subscriber_ack(c)
    \/ \E c \in scenario.conns : ReceiverLoop(c, FALSE)
    \/ \E c \in scenario.conns : Subscription_next(c)
    \/ \E c \in Stallers : ClientConnect(c)
    \/ \E c \in Stallers : ClientSend(c, [type |-> "Ping"])
    \/ \E c \in Stallers : ClientClose(c)
    \/ \E c \in ClientIds : Accept(c)
    \/ \E c \in ClientIds : ListenerLock(c)
    \/ \E c \in ClientIds : ListenerHandle(c, TRUE)

\* Every task of the publisher, of the task calling publish and of the
\* subscriber is scheduled; nothing is assumed of the other client.
StallFairness ==
    /\ WF_vars(PublishWrite(1))
    /\ WF_vars(PublishSend(1))
    /\ WF_vars(start_update_sender)
    /\ WF_vars(SenderRecv)
    /\ WF_vars(SenderLoad)
    /\ WF_vars(SenderPass({}))
    /\ \A c \in ClientIds :
          /\ WF_vars(Accept(c))
          /\ WF_vars(ListenerLock(c))
          /\ WF_vars(ListenerHandle(c, TRUE))
          /\ WF_vars(Subscriber_ack(c))
          /\ WF_vars(ReceiverLoop(c, FALSE))
          /\ WF_vars(Subscription_next(c))

\* The publisher with one task calling publish and one Reliable subscriber,
\* in the runs where publish is called after subscribe has returned and the
\* fan-out task does not get to run.
NextBackpressure ==
    \/ \E p \in {1} :
          /\ \A c \in scenario.conns : subscriber[c].pc = "running"
          /\ PublishFetchAdd(p, "v1")
    \/ \E p \in {1} : PublishWrite(p)
    \/ \E p \in {1} : PublishSend(p)
    \/ start_update_sender
    \/ \E c \in scenario.conns :
          Subscriber_subscribe(c, [kind |-> "OnChange"], ReliableQos)
    \/ \E c \in scenario.conns : Accept(c)
    \/ \E c \in scenario.conns : ListenerLock(c)
    \/ \E c \in scenario.conns : ListenerHandle(c, TRUE)
    \/ \E c \in scenario.conns : Subscriber_ack(c)

\* The publisher with one task publishing FanOutScript and two subscribers
\* that connect, subscribe and may close their connections at any time.
NextFanOut ==
    \/ \E p \in {1} : PublishFetchAdd(p, FanOutScript[sequence_number + 1])
    \/ \E p \in {1} : PublishWrite(p)
    \/ \E p \in {1} : PublishSend(p)
    \/ start_update_sender
    \/ SenderRecv
    \/ SenderLoad
    \/ \E failed \in SUBSET scenario.conns : SenderPass(failed)
    \/ \E c \in scenario.conns : ClientConnect(c)
    \/ \E c \in scenario.conns, msg \in FanOutMessages : ClientSend(c, msg)
    \/ \E c \in scenario.conns : ClientClose(c)
    \/ \E c \in scenario.conns : Accept(c)
    \/ \E c \in scenario.conns : ListenerLock(c)
    \/ \E c \in scenario.conns, ack_ok \in BOOLEAN : ListenerHandle(c, ack_ok)

\* The clients whose write fails in the next pass when every write to a
\* stream closed by its peer fails.
Broken == {c \in ClientIds : SendsTo(c) /\ conn[c].stage = "closed"}

\* The same, in the runs where a write to a closed stream always fails.
NextReap ==
    \/ \E p \in {1} : PublishFetchAdd(p, FanOutScript[sequence_number + 1])
    \/ \E p \in {1} : PublishWrite(p)
    \/ \E p \in {1} : PublishSend(p)
    \/ start_update_sender
    \/ SenderRecv
    \/ SenderLoad
    \/ SenderPass(Broken)
    \/ \E c \in scenario.conns : ClientConnect(c)
    \/ \E c \in scenario.conns, msg \in FanOutMessages : ClientSend(c, msg)
    \/ \E c \in scenario.conns : ClientClose(c)
    \/ \E c \in scenario.conns : Accept(c)
    \/ \E c \in scenario.conns : ListenerLock(c)
    \/ \E c \in scenario.conns, ack_ok \in BOOLEAN : ListenerHandle(c, ack_ok)

(***************************************************************************)
(* The two locks of the publisher.  The write lock on clients is           *)
(* clients_lock.  The lock on current_value is held by the publish call    *)
(* that is between `self.current_value.write().await` and the end of the   *)
(* block, where the guard is dropped; the read guard of the listener task  *)
(* lives for one statement, in which the task does not wait.               *)
(***************************************************************************)
LockScenario ==
    [catalog |-> {}, patterns |-> {}, conns |-> ClientIds,
     max_registrations |-> 0, max_time |-> 0, max_publish |-> MaxLockPublish]

\* What each client writes first in the lock scenario: a Subscribe, and a
\* message the publisher does not expect
LockMessage ==
    <<[type |-> "Subscribe", service |-> TopicName, mode |-> [kind |-> "OnChange"]],
      [type |-> "Ping"]>>

\* The value each of the two tasks publishes
LockValue == <<"v1", "v2">>

\* The publish calls that hold the write guard of current_value
current_value_writers == {p \in PublishCallers : publishers[p].pc = "writing"}

\* Publisher::publish, `self.current_value.write().await` returns the guard
PublishAcquire(p) ==
    /\ publishers[p].pc = "write"
    /\ current_value_writers = {}
    /\ publishers' = [publishers EXCEPT ![p].pc = "writing"]
    /\ UNCHANGED <<sequence_number, current_value, update_rx, clients, clients_lock,
                   sender, listener, conn>>
    /\ UNCHANGED <<published, returned>>
    /\ UNCHANGED <<auxVars, registryVars, globVars, subVars>>

\* Faulty variant: the value is assigned only once the clients lock is free
PublishAssign_after_clients(p) ==
    /\ publishers[p].pc = "writing"
    /\ clients_lock = None
    /\ current_value' = Some(publishers[p].value)
    /\ publishers' = [publishers EXCEPT ![p].pc = "send"]
    /\ UNCHANGED <<sequence_number, update_rx, clients, clients_lock, sender,
                   listener, conn>>
    /\ UNCHANGED <<published, returned>>
    /\ UNCHANGED <<auxVars, registryVars, globVars, subVars>>

\* Publisher::publish, `*current = Some(value.clone())` and the end of the
\* block, which drops the guard
PublishAssign(p) ==
    /\ publishers[p].pc = "writing"
    /\ current_value' = Some(publishers[p].value)
    /\ publishers' = [publishers EXCEPT ![p].pc = "send"]
    /\ UNCHANGED <<sequence_number, update_rx, clients, clients_lock, sender,
                   listener, conn>>
    /\ UNCHANGED <<published, returned>>
    /\ UNCHANGED <<auxVars, registryVars, globVars, subVars>>

\* The task of spawn_client_listener from decode on, where the lock on
\* current_value is a lock: for a Subscribe the task, holding the write lock
\* on clients, needs `current_value.read().await` to return.
ListenerHandleLocked(c, ack_ok) ==
    /\ (conn[c].sent # None /\ conn[c].sent.type = "Subscribe")
          => current_value_writers = {}
    /\ ListenerHandle(c, ack_ok)

\* The publisher with two tasks calling publish, the accept loop, the
\* listener tasks and the fan-out task, with both locks.
NextLocks ==
    \/ \E p \in PublishCallers : PublishFetchAdd(p, LockValue[p])
    \/ \E p \in PublishCallers : PublishAcquire(p)
    \/ \E p \in PublishCallers : PublishAssign(p)
    \/ \E p \in PublishCallers : PublishSend(p)
    \/ start_update_sender
    \/ SenderRecv
    \/ SenderLoad
    \/ \E failed \in SUBSET scenario.conns : SenderPass(failed)
    \/ \E c \in scenario.conns : ClientConnect(c)
    \/ \E c \in scenario.conns : ClientSend(c, LockMessage[c])
    \/ \E c \in scenario.conns : ClientClose(c)
    \/ \E c \in scenario.conns : Accept(c)
    \/ \E c \in scenario.conns : ListenerLock(c)
    \/ \E c \in scenario.conns, ack_ok \in BOOLEAN : ListenerHandleLocked(c, ack_ok)

\* Every task of the publisher is scheduled and every socket read and write
\* completes: a client that has connected sends its first message unless it
\* closes, and a write returns Ok or Err.
LockFairness ==
    /\ \A p \in PublishCallers :
          /\ WF_vars(PublishAcquire(p))
          /\ WF_vars(PublishAssign(p))
          /\ WF_vars(PublishSend(p))
    /\ WF_vars(start_update_sender)
    /\ WF_vars(SenderRecv)
    /\ WF_vars(SenderLoad)
    /\ WF_vars(\E failed \in SUBSET scenario.conns : SenderPass(failed))
    /\ \A c \in ClientIds :
          /\ WF_vars(Accept(c))
          /\ WF_vars(ListenerLock(c))
          /\ WF_vars(\E ack_ok \in BOOLEAN : ListenerHandleLocked(c, ack_ok))
          /\ WF_vars(ClientSend(c, LockMessage[c]))

\* The task calling publish goes through its script, every task of the
\* publisher is scheduled, and a client that has connected sends its
\* Subscribe unless it closes.
ReapFairness ==
    /\ WF_vars(\E p \in {1} : PublishFetchAdd(p, FanOutScript[sequence_number + 1]))
    /\ WF_vars(PublishWrite(1))
    /\ WF_vars(PublishSend(1))
    /\ WF_vars(start_update_sender)
    /\ WF_vars(SenderRecv)
    /\ WF_vars(SenderLoad)
    /\ WF_vars(SenderPass(Broken))
    /\ \A c \in ClientIds :
          /\ WF_vars(Accept(c))
          /\ WF_vars(ListenerLock(c))
          /\ WF_vars(\E ack_ok \in BOOLEAN : ListenerHandle(c, ack_ok))
          /\ WF_vars(\E msg \in FanOutMessages : ClientSend(c, msg))

GlobIdle ==
    /\ pattern_arg = ""
    /\ name_arg = ""
    /\ match_result = [stage |-> "idle"]

RegistryIdle ==
    /\ scenario = RegistryScenario
    /\ RegistryInit

\* Patterns and names ServicePattern is called with.
InitGlob ==
    /\ pattern_arg \in GlobPatterns
    /\ name_arg \in GlobNames
    /\ match_result = [stage |-> "idle"]
    /\ RegistryIdle
    /\ PubInit
    /\ SubInit
    /\ AuxInit

\* ServicePattern::new(pattern_arg)
PatternNew ==
    /\ match_result.stage = "idle"
    /\ match_result' = [stage |-> "compiled", ok |-> ServicePattern_new(pattern_arg).ok]
    /\ UNCHANGED <<auxVars, pattern_arg, name_arg, registryVars, pubVars, subVars>>

\* ServicePattern::matches(name_arg) on the compiled pattern
PatternMatches ==
    /\ match_result.stage = "compiled"
    /\ match_result.ok
    /\ match_result' = [stage |-> "matched",
                        matches |-> ServicePattern_matches(pattern_arg, name_arg)]
    /\ UNCHANGED <<auxVars, pattern_arg, name_arg, registryVars, pubVars, subVars>>

NextGlob ==
    \/ PatternNew
    \/ PatternMatches

Init ==
    /\ scenario = RegistryScenario
    /\ RegistryInit
    /\ PubInit
    /\ SubInit
    /\ AuxInit
    /\ GlobIdle

InitWatch ==
    /\ scenario = WatchScenario
    /\ RegistryInit
    /\ PubInit
    /\ SubInit
    /\ AuxInit
    /\ GlobIdle

InitDiscovery ==
    /\ scenario = DiscoveryScenario
    /\ RegistryInit
    /\ PubInit
    /\ SubInit
    /\ AuxInit
    /\ GlobIdle

InitPub ==
    /\ scenario = PubScenario
    /\ RegistryInit
    /\ PubInit
    /\ SubInit
    /\ AuxInit
    /\ GlobIdle

InitOnChange ==
    /\ scenario = OnChangeScenario
    /\ RegistryInit
    /\ PubInit
    /\ SubInit
    /\ AuxInit
    /\ GlobIdle

InitSub ==
    /\ scenario = SubScenario
    /\ RegistryInit
    /\ PubInit
    /\ SubInit
    /\ AuxInit
    /\ GlobIdle

InitPeriodic ==
    /\ scenario = PeriodicScenario
    /\ RegistryInit
    /\ PubInit
    /\ SubInit
    /\ AuxInit
    /\ GlobIdle

InitPeriodicIdle ==
    /\ scenario = PeriodicIdleScenario
    /\ RegistryInit
    /\ PubInit
    /\ SubInit
    /\ AuxInit
    /\ GlobIdle

InitStall ==
    /\ scenario = StallScenario
    /\ RegistryInit
    /\ PubInit
    /\ SubInit
    /\ AuxInit
    /\ GlobIdle

InitBackpressure ==
    /\ scenario = BackpressureScenario
    /\ RegistryInit
    /\ PubInit
    /\ SubInit
    /\ AuxInit
    /\ GlobIdle

Spec == Init /\ [][Next]_vars
InitLifecycle ==
    /\ scenario = LifecycleScenario
    /\ RegistryInit
    /\ PubInit
    /\ SubInit
    /\ AuxInit
    /\ GlobIdle

SpecLifecycle == InitLifecycle /\ [][NextLifecycle]_vars
InitHeartbeat ==
    /\ scenario = HeartbeatScenario
    /\ RegistryInit
    /\ PubInit
    /\ SubInit
    /\ AuxInit
    /\ GlobIdle

SpecHeartbeat == InitHeartbeat /\ [][NextHeartbeat]_vars
InitFanOut ==
    /\ scenario = FanOutScenario
    /\ RegistryInit
    /\ PubInit
    /\ SubInit
    /\ AuxInit
    /\ GlobIdle

SpecFanOut == InitFanOut /\ [][NextFanOut]_vars
SpecReap == InitFanOut /\ [][NextReap]_vars /\ ReapFairness
InitLocks ==
    /\ scenario = LockScenario
    /\ RegistryInit
    /\ PubInit
    /\ SubInit
    /\ AuxInit
    /\ GlobIdle

SpecLocks == InitLocks /\ [][NextLocks]_vars /\ LockFairness
InitDispatch ==
    /\ scenario = DispatchScenario
    /\ RegistryInit
    /\ PubInit
    /\ SubInit
    /\ AuxInit
    /\ GlobIdle

SpecDispatch == InitDispatch /\ [][NextDispatch]_vars
SpecCodec == Init /\ [][NextCodec]_vars
SpecRpc == Init /\ [][NextRpc]_vars /\ RpcFairness
SpecConnection == Init /\ [][NextConnection]_vars
SpecBackpressure == InitBackpressure /\ [][NextBackpressure]_vars
SpecStall == InitStall /\ [][NextStall]_vars /\ StallFairness
\* Every task of the runtime is scheduled, and the clock runs on.
SpecPeriodicIdle ==
    InitPeriodicIdle /\ [][NextPeriodic]_vars /\ WF_vars(NextPeriodic)
SpecPeriodic == InitPeriodic /\ [][NextPeriodic]_vars
SpecSub == InitSub /\ [][NextSub]_vars
SpecOnChange == InitOnChange /\ [][NextOnChange]_vars
SpecPub == InitPub /\ [][NextPub]_vars
SpecWatch == InitWatch /\ [][NextWatch]_vars
SpecDiscovery == InitDiscovery /\ [][Next]_vars
SpecGlob == InitGlob /\ [][NextGlob]_vars


(***************************************************************************)
(* Properties of the registry.                                             *)
(***************************************************************************)
\* The step stores the registration of connection c (its info is pending'[c]).
Stores(c) == pending[c] = None /\ pending'[c] # None
\* The step completes the registration of connection c (its info is pending[c]).
Completes(c) == pending[c] # None /\ pending'[c] = None

\* Names with an entry that has not expired.
LiveNames ==
    {n \in ServiceNames : services[n] # None /\ now <= services[n].expires_at}

\* C1: single registration, last writer wins.  Every entry is stored under
\* its own name (one entry per name); a Register that commits makes Lookup
\* of its name return its ServiceInfo and touches no other name; and what
\* Lookup(n) returns changes only when the TTL of n's entry elapses or a
\* Register of n commits, and then to that Register's ServiceInfo.
C1_LastWriterWins ==
    [][ /\ \A n \in ServiceNames : services'[n] # None => services'[n].info.name = n
        /\ \A c \in Conns, info \in scenario.catalog :
              (Stores(c) /\ pending'[c] = info) =>
                 /\ lookup_service(info.name)' = info
                 /\ \A m \in ServiceNames \ {info.name} : services'[m] = services[m]
        /\ \A n \in ServiceNames :
              (lookup_service(n) # None /\ lookup_service(n)' # lookup_service(n)) =>
                 \/ now' > services[n].expires_at
                 \/ \E c \in Conns, info \in scenario.catalog :
                       /\ Stores(c)
                       /\ pending'[c] = info
                       /\ info.name = n
                       /\ lookup_service(n)' = info
      ]_vars

\* Two concurrent Registers of SENSOR/X from different addresses are both
\* stored and not yet complete, and Lookup returns one of them.
C1_Witness ==
    /\ pending[1] # None
    /\ pending[2] # None
    /\ pending[1].name = "SENSOR/X"
    /\ pending[2].name = "SENSOR/X"
    /\ pending[1].address # pending[2].address
    /\ lookup_service("SENSOR/X") # None

\* C2: expiry.  Lookup and Discover return an entry only while now <= its
\* expires_at, and once more than ttl_ms has passed since the last
\* successful Register or Renew of n, Lookup(n) is NotFound, whether or not
\* the entry is still stored.
C2_Expiry ==
    /\ \A n \in ServiceNames :
          /\ lookup_service(n) # None => now <= services[n].expires_at
          /\ now > lease_end[n] => lookup_service(n) = None
    /\ \A p \in scenario.patterns :
          discover_services(p).ok =>
             \A info \in discover_services(p).services :
                /\ services[info.name] # None
                /\ now <= services[info.name].expires_at
                /\ now <= lease_end[info.name]
    /\ (reply.op = "Lookup" /\ reply.result # None) =>
          now <= lease_end[reply.result.name]
    /\ (reply.op = "Discover" /\ reply.result.ok) =>
          \A info \in reply.result.services : now <= lease_end[info.name]

\* Both entries of the scenario are stored and expired, and a Lookup has
\* just returned NotFound.
C2_Witness ==
    /\ services["SENSOR/X"] # None
    /\ services["OTHER/Y"] # None
    /\ now > services["SENSOR/X"].expires_at
    /\ now > services["OTHER/Y"].expires_at
    /\ reply = [op |-> "Lookup", result |-> None]

\* C3: Renew(n, a, ttl) succeeds iff an entry for n exists with address a;
\* then last_heartbeat = now and expires_at = now + ttl and nothing else of
\* the registry changes; otherwise it fails with ServiceNotFound and the
\* registry is unchanged.
C3_Renew ==
    [][ \A n \in ServiceNames, r \in scenario.catalog :
          renew_service(n, r.address, r.ttl_ms) =>
             IF services[n] # None /\ services[n].info.address = r.address
             THEN /\ reply'.result = "Ok"
                  /\ services'[n].last_heartbeat = now
                  /\ services'[n].expires_at = now + r.ttl_ms
                  /\ services'[n].info = services[n].info
                  /\ \A m \in ServiceNames \ {n} : services'[m] = services[m]
             ELSE /\ reply'.result = "ServiceNotFound"
                  /\ services' = services
                  /\ watches' = watches
                  /\ watchers' = watchers
      ]_vars

\* Both names are registered and a Renew has just failed: its address was
\* not the entry's.
C3_Witness ==
    /\ reply = [op |-> "Renew", result |-> "ServiceNotFound"]
    /\ services["SENSOR/X"] # None
    /\ services["OTHER/Y"] # None

\* C4: Discover(pattern) returns exactly the ServiceInfo of the entries that
\* are stored, not expired and whose name matches; an uncompilable pattern
\* yields a Registry error; either way the registry is unchanged.
C4_Discover ==
    [][ \A p \in scenario.patterns :
          Discover(p) =>
             /\ services' = services
             /\ watches' = watches
             /\ watchers' = watchers
             /\ IF ServicePattern_new(p).ok
                THEN /\ reply'.result.ok
                     /\ \A n \in ServiceNames :
                           (\E info \in reply'.result.services : info.name = n)
                              <=> (n \in LiveNames /\ ServicePattern_matches(p, n))
                     /\ \A info \in reply'.result.services :
                           info = services[info.name].info
                ELSE reply'.result = RegistryError
      ]_vars

\* Both entries are stored, one of them expired, and a Discover has just
\* returned a single service.
C4_Witness ==
    /\ reply.op = "Discover"
    /\ reply.result.ok
    /\ Cardinality(reply.result.services) = 1
    /\ services["SENSOR/X"] # None
    /\ services["OTHER/Y"] # None
    /\ Cardinality(LiveNames) = 1

(***************************************************************************)
(* Properties of pattern matching.                                         *)
(***************************************************************************)
\* Number of `/` in a sequence of characters.
RECURSIVE SeparatorCount(_)
SeparatorCount(chars) ==
    IF chars = <<>> THEN 0
    ELSE (IF is_separator(Head(chars)) THEN 1 ELSE 0) + SeparatorCount(Tail(chars))

\* Positions of `*` in the characters of a pattern.
StarPositions(chars) == {i \in 1..Len(chars) : chars[i] = "*"}

\* The pattern's only metacharacters are single `*`s.
OnlyStars(chars) ==
    /\ \A i \in 1..Len(chars) : chars[i] \notin {"?", "["}
    /\ \A i \in 1..(Len(chars) - 1) : ~(chars[i] = "*" /\ chars[i + 1] = "*")

\* pre is a prefix, and post a suffix, of chars, without overlap.
Surrounds(pre, post, chars) ==
    /\ Len(pre) + Len(post) <= Len(chars)
    /\ SubSeq(chars, 1, Len(pre)) = pre
    /\ SubSeq(chars, Len(chars) - Len(post) + 1, Len(chars)) = post

\* C5 (as stated): `*` matches within one path segment and never crosses a
\* `/`, so a name that matches a pattern whose only metacharacters are `*`s
\* has as many segments as the pattern.
C5_StarWithinSegment ==
    (/\ match_result.stage = "matched"
     /\ match_result.matches
     /\ OnlyStars(Chars(pattern_arg)))
        => SeparatorCount(Chars(name_arg)) = SeparatorCount(Chars(pattern_arg))

\* C5 (amended): `*` matches any run of characters, `/` included.  A pattern
\* without metacharacters matches exactly itself; a pattern with one `*`
\* matches exactly the names that start with what precedes the `*` and end
\* with what follows it; SENSOR/ROOM_A/TEMP matches SENSOR/*.
C5_StarCrossesSegments ==
    match_result.stage = "matched" =>
        LET pat == Chars(pattern_arg)
            name == Chars(name_arg)
            stars == StarPositions(pat)
        IN  /\ (OnlyStars(pat) /\ stars = {}) =>
                  (match_result.matches <=> name = pat)
            /\ (OnlyStars(pat) /\ Cardinality(stars) = 1) =>
                  LET i == CHOOSE k \in stars : TRUE
                  IN  match_result.matches <=>
                         Surrounds(SubSeq(pat, 1, i - 1),
                                   SubSeq(pat, i + 1, Len(pat)), name)
            /\ (pattern_arg = "SENSOR/*" /\ name_arg = "SENSOR/ROOM_A/TEMP") =>
                  match_result.matches

\* SENSOR/ROOM_A/TEMP has been matched against SENSOR/* and matches.
C5_Witness ==
    /\ match_result.stage = "matched"
    /\ match_result.matches
    /\ pattern_arg = "SENSOR/*"
    /\ name_arg = "SENSOR/ROOM_A/TEMP"

(***************************************************************************)
(* Properties of discovery over the three services of the integration test.*)
(***************************************************************************)
ThreeServices ==
    {"SENSOR/ROOM_A/TEMP", "SENSOR/ROOM_B/TEMP", "DETECTOR/HALL_1/STATUS"}

\* C6: with exactly SENSOR/ROOM_A/TEMP, SENSOR/ROOM_B/TEMP and
\* DETECTOR/HALL_1/STATUS live, Discover("SENSOR/*/TEMP") returns 2 services,
\* Discover("SENSOR/*") returns 2 and Discover("*") returns 3; in every state
\* a successful Discover returns as many services as there are live names
\* matching the pattern.
C6_DiscoveryCounts ==
    [][ \A p \in DiscoveryPatterns :
          Discover(p) =>
             /\ reply'.result.ok =>
                   Cardinality(reply'.result.services)
                      = Cardinality({n \in LiveNames : ServicePattern_matches(p, n)})
             /\ LiveNames = ThreeServices =>
                   /\ p = "SENSOR/*/TEMP" =>
                         (reply'.result.ok /\ Cardinality(reply'.result.services) = 2)
                   /\ p = "SENSOR/*" =>
                         (reply'.result.ok /\ Cardinality(reply'.result.services) = 2)
                   /\ p = "*" =>
                         (reply'.result.ok /\ Cardinality(reply'.result.services) = 3)
      ]_vars

\* The three services are the live ones and a Discover has just returned
\* two of them.
C6_Witness ==
    /\ LiveNames = ThreeServices
    /\ reply.op = "Discover"
    /\ reply.result.ok
    /\ Cardinality(reply.result.services) = 2
    /\ \A info \in reply.result.services :
          info.name \in {"SENSOR/ROOM_A/TEMP", "SENSOR/ROOM_B/TEMP"}

(***************************************************************************)
(* Properties of watches.                                                  *)
(***************************************************************************)
\* C7: watch completeness.  When a Register completes, every watch that was
\* open when the Register began, whose receiver is still held and whose
\* pattern matches the registered name, has the registered service appended
\* to what it receives, whatever Registers, Renews and cleanup ticks came
\* in between.
C7_WatchCompleteness ==
    [][ \A c \in Conns :
          Completes(c) =>
             \A w \in open_at_store[c] :
                (/\ watchers[w].held
                 /\ ServicePattern_matches(watchers[w].pattern, pending[c].name))
                   => watchers'[w].got = Append(watchers[w].got, pending[c])
      ]_vars

\* C8: watch soundness.  Everything a watcher of pattern P has received
\* names a service matching P.  What it has received changes only by the
\* snapshot of the entries live and matching when the watch is opened, or
\* by the service of a completing Register with a matching name being
\* appended (or by the receiver being dropped).  A Register of a
\* non-matching name, a Renew, a clock tick (expiry) and cleanup deliver
\* nothing.
C8_WatchSoundness ==
    [][ \A w \in WatchIds :
          /\ \A i \in 1..Len(watchers'[w].got) :
                ServicePattern_matches(watchers'[w].pattern, watchers'[w].got[i].name)
          /\ watchers'[w].got # watchers[w].got =>
                \/ /\ watchers[w].stage = "idle"
                   /\ watchers[w].got = <<>>
                   /\ \A i \in 1..Len(watchers'[w].got) :
                         LET e == watchers'[w].got[i]
                         IN  /\ e.name \in LiveNames
                             /\ services[e.name].info = e
                \/ \E c \in Conns :
                      /\ Completes(c)
                      /\ ServicePattern_matches(watchers[w].pattern, pending[c].name)
                      /\ watchers'[w].got = Append(watchers[w].got, pending[c])
                \/ /\ watchers[w].held
                   /\ ~watchers'[w].held
                   /\ watchers'[w].got = <<>>
          /\ \A c \in Conns :
                (/\ Completes(c)
                 /\ watchers[w].stage # "idle"
                 /\ ~ServicePattern_matches(watchers[w].pattern, pending[c].name))
                   => watchers'[w].got = watchers[w].got
          /\ (\/ now' # now
              \/ cleanupPc' # cleanupPc
              \/ reply'.op = "Renew")
                => watchers'[w].got = watchers[w].got
      ]_vars

\* The watcher of SENSOR/* has received SENSOR/X, and a Register of OTHER/Y
\* has just completed without adding anything.
C8_Witness ==
    /\ watchers[1].stage = "open"
    /\ watchers[1].held
    /\ watchers[1].pattern = "SENSOR/*"
    /\ Len(watchers[1].got) = 1
    /\ watchers[1].got[1].name = "SENSOR/X"
    /\ reply = [op |-> "ServiceRegistered", service |-> "OTHER/Y", success |-> TRUE]

(***************************************************************************)
(* Properties of the sequence numbers a subscriber receives.               *)
(***************************************************************************)
\* The Publish messages received on connection c, in order of arrival.
IsPublish(m) == m.type = "Publish"
Publishes(c) == SelectSeq(conn[c].wire, IsPublish)

\* C9: within one subscriber connection the sequence fields of the Publish
\* messages received are strictly increasing: no two carry the same number.
C9_StrictlyIncreasing ==
    \A c \in ClientIds :
        \A i, j \in 1..Len(Publishes(c)) :
            i < j => Publishes(c)[i].sequence < Publishes(c)[j].sequence

\* C10: for any two Publish messages received on one connection, the later
\* one's sequence is at least the earlier one's.
C10_NonDecreasing ==
    \A c \in ClientIds :
        \A i, j \in 1..Len(Publishes(c)) :
            i < j => Publishes(c)[i].sequence <= Publishes(c)[j].sequence

\* A subscriber has received three Publish messages, numbered 1, 3 and 3.
C10_Witness ==
    /\ Len(Publishes(1)) = 3
    /\ Publishes(1)[1].sequence = 1
    /\ Publishes(1)[2].sequence = 3
    /\ Publishes(1)[3].sequence = 3

(***************************************************************************)
(* Properties of the publisher's current value and delivery modes.         *)
(***************************************************************************)
\* C11: once a publish has returned, current_value() is the value of that
\* publish or of a publish with a higher sequence number, never the value
\* of a publish with a lower one, also with publish called from several
\* tasks at once.
C11_CurrentValueFresh ==
    returned > 0 =>
        \E s \in returned..Len(published) : current_value = Some(published[s])

\* The values of the Publish messages received on connection c, in order.
PublishedValues(c) == [i \in 1..Len(Publishes(c)) |-> Publishes(c)[i].value]

\* Every publish call has returned and the fan-out task has handled
\* every value.
PublisherQuiet ==
    /\ sequence_number = scenario.max_publish
    /\ \A p \in PublishCallers : publishers[p].pc = "idle"
    /\ update_rx = <<>>
    /\ sender.pc = "recv"

\* C12: on-change delivery.  The fan-out task sends a value to an OnChange
\* subscriber iff nothing has been sent to it yet or the value differs from
\* the last value sent to it; and a subscriber whose OnChange subscription
\* was acknowledged before the first publish took effect has received
\* exactly v1, v2, v3 once v1, v1, v2, v2, v3 have been published and
\* fanned out.
C12_OnChangeDelivery ==
    [][ \A c \in ClientIds :
          /\ (/\ sender.pc = "lock"
              /\ sender'.pc = "recv"
              /\ clients[c] # None
              /\ clients[c].subscription # None
              /\ clients[c].subscription.mode.kind = "OnChange")
                =>
                 IF \/ PublishedValues(c) = <<>>
                    \/ PublishedValues(c)[Len(PublishedValues(c))] # sender.new_value
                 THEN PublishedValues(c)' = Append(PublishedValues(c), sender.new_value)
                 ELSE PublishedValues(c)' = PublishedValues(c)
          /\ (/\ PublisherQuiet'
              /\ conn'[c].wire # <<>>
              /\ conn'[c].wire[1].type = "SubscribeAck"
              /\ conn'[c].wire[1].current_value = None)
                => PublishedValues(c)' = <<"v1", "v2", "v3">>
      ]_vars

\* The on-change subscriber, acknowledged without a current value, has
\* received v1, v2, v3 and all five values have been published.
C12_Witness ==
    /\ PublisherQuiet
    /\ sequence_number = Len(OnChangeScript)
    /\ conn[1].wire # <<>>
    /\ conn[1].wire[1].type = "SubscribeAck"
    /\ conn[1].wire[1].current_value = None
    /\ PublishedValues(1) = <<"v1", "v2", "v3">>

(***************************************************************************)
(* Properties of the Subscription a subscriber holds.                      *)
(***************************************************************************)
\* The values next() has returned to the subscriber, in order.
YieldedValues(c) ==
    SelectSeq(subscriber[c].yielded, LAMBDA y : y # None)

\* C13: over the whole life of a Once subscription, next() yields at most
\* one value: the current value of the SubscribeAck or else the first value
\* published afterwards, and never a second one.
C13_OnceAtMostOnce ==
    \A c \in ClientIds :
        subscriber[c].mode = [kind |-> "Once"] => Len(YieldedValues(c)) <= 1

\* C20: next() returns None only at the end of the stream, after the
\* receiver task has ended and every buffered value has been returned; while
\* the task runs, also after the delivery queue has overflowed, next()
\* returns a value or waits.
C20_NoneOnlyAtEnd ==
    [][ \A c \in ClientIds :
          subscriber'[c].yielded = Append(subscriber[c].yielded, None) =>
              /\ subscriber[c].pc = "exited"
              /\ subscriber[c].queue = <<>>
      ]_vars

\* C18: the SubscribeAck the listener task writes carries the publisher's
\* current value iff the Subscribe's qos.durability is true (and a value has
\* been published); for a subscriber with durability false the ack's
\* current_value is none.
C18_DurabilityReplay ==
    [][ \A c \in ClientIds :
          ( /\ listener[c] = "locked"
            /\ listener'[c] = "done"
            /\ conn'[c].wire # conn[c].wire )
          => conn'[c].wire[Len(conn'[c].wire)].current_value
                = (IF conn[c].sent.qos.durability THEN current_value ELSE None)
      ]_vars

(***************************************************************************)
(* Properties of Periodic subscriptions.                                   *)
(***************************************************************************)
\* The pass of the fan-out task over the clients.
FanOutPass == sender.pc = "lock" /\ sender'.pc = "recv"

\* The subscription the publisher holds for client c is Periodic.
HoldsPeriodic(c) ==
    /\ clients[c] # None
    /\ clients[c].subscription # None
    /\ clients[c].subscription.mode.kind = "Periodic"

\* The subscriber was acknowledged with no current value: it subscribed
\* before the first publish.
AckedEmpty(c) ==
    /\ conn[c].wire # <<>>
    /\ conn[c].wire[1].type = "SubscribeAck"
    /\ conn[c].wire[1].current_value = None

FannedOut ==
    Len(published)
      - Cardinality({p \in PublishCallers : publishers[p].pc \in {"write", "send"}})
      - Len(update_rx)
      - (IF sender.pc \in {"load", "lock"} THEN 1 ELSE 0)

AckedWithValue(c) ==
    /\ conn[c].wire # <<>>
    /\ conn[c].wire[1].type = "SubscribeAck"
    /\ conn[c].wire[1].current_value # None

\* C16: a Periodic subscriber of a publisher that holds a current value and
\* makes no further publish call gets a value from each of two successive
\* calls of next().
C16_PeriodicRepeats ==
    (subscriber[1].pc = "running" /\ AckedWithValue(1))
        ~> (Len(YieldedValues(1)) >= 2)

(***************************************************************************)
(* Properties of delivery next to other connections.                       *)
(***************************************************************************)
\* C17: once subscribe with mode OnChange has returned, the value of every
\* publish call made afterwards that has returned is eventually returned by
\* the subscription's next(), the connection staying up and the tasks being
\* scheduled fairly.
C17_DeliveryLiveness ==
    \A k \in 1..Len(StallScript) :
        []( (subscriber[1].pc = "running" /\ Len(published) < k) =>
              [](returned >= k =>
                   <>(\E i \in 1..Len(YieldedValues(1)) :
                         YieldedValues(1)[i] = Some(StallScript[k]))) )

\* The listener task of client d holds the write lock on the clients while
\* it waits for the first message of d, which is connected and silent.
HeldFor(d) ==
    /\ listener[d] = "locked"
    /\ clients_lock = [listener |-> d]
    /\ conn[d].stage = "connected"
    /\ conn[d].sent = None

\* C19: a client that connects and then stalls affects only its own
\* connection: neither the fan-out of a value to a subscribed client nor the
\* admission of a connecting client ever waits for it.
C19_ConnectionIsolation ==
    \A c \in ClientIds : \A d \in ClientIds \ {c} :
        HeldFor(d) =>
            /\ ~(sender.pc = "lock" /\ SendsTo(c))
            /\ ~(conn[c].stage # "idle" /\ listener[c] = "none")

(***************************************************************************)
(* Properties of the channel between publish and the fan-out task.         *)
(***************************************************************************)
\* The publisher holds a subscription of a client that asked for Reliable
\* delivery.
HoldsReliable(c) ==
    /\ clients[c] # None
    /\ clients[c].subscription # None
    /\ subscriber[c].qos = ReliableQos

\* C21: while a Reliable subscription is held, a publish call does not
\* return before its value is in the channel to the fan-out task with every
\* value pending there kept: on a full channel it waits rather than drop the
\* oldest pending value.
C21_ReliableBackpressure ==
    [][ \A p \in PublishCallers :
          ( /\ publishers[p].pc = "send"
            /\ publishers'[p].pc = "idle"
            /\ \E c \in ClientIds : HoldsReliable(c) )
          => update_rx' = Append(update_rx, publishers[p].value)
      ]_vars

(***************************************************************************)
(* Properties of Connection::connect.                                      *)
(***************************************************************************)
\* The delay before the retry that follows the i-th failure: 1 s doubled
\* i - 1 times, at most 30 s.
BackoffDelay(i) == min(ReconnectDelayStart * 2 ^ (i - 1), ReconnectDelayCap)

\* C22: the first connect call of a Connection sleeps 1 s, 2 s, 4 s, ...
\* capped at 30 s between its attempts, and makes at most 10 attempts: after
\* the 10th failure it gives up, there is no 11th attempt.
C22_ReconnectBudget ==
    connect_log.calls = 1 =>
        /\ connect_log.tried <= MaxReconnectAttempts
        /\ \A i \in 1..Len(connect_log.slept) :
              connect_log.slept[i] = BackoffDelay(i)

\* C23: a successful connect resets the attempt counter and the backoff
\* delay: when an attempt of connect succeeds, whatever failures came before,
\* reconnect_attempts is 0 and the delay of the next retry is 1 s again.
C23_SuccessResets ==
    [][ (connection.pc = "connecting" /\ connection'.stream) =>
          /\ connection'.reconnect_attempts = 0
          /\ connection'.reconnect_delay = ReconnectDelayStart
      ]_vars

(***************************************************************************)
(* Properties of RPC calls.                                                *)
(***************************************************************************)
\* C24: a call of RpcClient::call terminates: also when no RpcResponse ever
\* arrives, it returns (with a Timeout error, once the caller's timeout has
\* expired) and its connection is closed.
C24_CallTerminates ==
    (rpc.client.kind = "RpcClient" /\ rpc.client.pc = "awaiting")
        ~> (rpc.client.pc = "idle" /\ ~rpc.open)

\* The request the server's task takes in this step, if the step is a turn
\* of the request loop of handle_client on an open connection in which the
\* handler, if any, completes.
Serves(request) ==
    /\ rpc.server = "decode"
    /\ rpc.open
    /\ rpc.to_server # <<>>
    /\ request = Head(rpc.to_server)
    /\ rpc'.to_server = Tail(rpc.to_server)
    /\ rpc'.server # "hung"

\* The RpcResponse messages among msgs
Responses(msgs) == SelectSeq(msgs, LAMBDA m : m.type = "RpcResponse")

\* C25: for every RpcCall the server sends exactly one RpcResponse, whose
\* result is the handler's Ok value or Err of the handler's error text when
\* the method is registered, and Err("Method not found: <method>") when it
\* is not; the task goes on to serve later calls on the same connection.
C25_Dispatch ==
    [][ \A request \in {m \in RawMessages : m.type = "RpcCall"} :
          \A id \in 1 .. rpc.next_id :
            Serves(request @@ [id |-> id]) =>
              /\ Len(rpc'.responses) = Len(rpc.responses) + 1
              /\ LET response == rpc'.responses[Len(rpc'.responses)]
                 IN  /\ rpc'.responses = Append(rpc.responses, response)
                     /\ rpc'.to_client = Append(rpc.to_client, response)
                     /\ response.type = "RpcResponse"
                     /\ IF request.method = "add"
                        THEN response.result \in {[ok |-> "sum"],
                                                  [err |-> "Protocol error: bad params"]}
                        ELSE response.result = [err |-> "Method not found: " \o request.method]
              /\ rpc'.server = "decode"
    ]_vars

\* A call of the unknown method `sub` was answered "Method not found: sub",
\* and a later call of `add` on the same connection was answered too.
C25_Witness ==
    /\ Len(rpc.calls) >= 2
    /\ Len(rpc.responses) >= 2
    /\ rpc.calls[1].type = "RpcCall" /\ rpc.calls[1].method = "sub"
    /\ rpc.responses[1].type = "RpcResponse"
    /\ rpc.responses[1].result = [err |-> "Method not found: sub"]
    /\ rpc.calls[2].type = "RpcCall" /\ rpc.calls[2].method = "add"
    /\ rpc.responses[2].type = "RpcResponse"
    /\ rpc.responses[2].result = [ok |-> "sum"]
    /\ rpc.server = "decode"

\* Every RpcResponse the server sends carries the envelope id of the
\* RpcCall it answers.
ServerCorrelates ==
    [][ \A request \in {m \in RawMessages : m.type = "RpcCall"} :
          \A id \in 1 .. rpc.next_id :
            Serves(request @@ [id |-> id]) =>
              /\ Len(rpc'.responses) = Len(rpc.responses) + 1
              /\ rpc'.responses[Len(rpc'.responses)].call_id = id
    ]_vars

\* C26: RpcClient::call returns a result only from an RpcResponse whose
\* call_id is the id of the RpcCall it sent (and every RpcResponse of the
\* server carries the id of the call it answers: ServerCorrelates).
C26_Correlation ==
    \A i \in 1 .. Len(rpc.returns) :
        rpc.returns[i].response.type = "RpcResponse"
            => rpc.returns[i].response.call_id = rpc.returns[i].call_id

(***************************************************************************)
(* Properties of the leases of running services.                           *)
(***************************************************************************)
\* C27: an RPC server that has started remains discoverable: like the
\* publisher it keeps re-registering, so a look-up of its name finds it
\* also after the TTL of its first registration has passed.
C27_RpcServerDiscoverable ==
    hosts.rpc1.started => lookup_service(HostInfo.rpc1.name) # None

\* C30: once another publisher's registration has replaced that of the
\* publisher h under the same name, a heartbeat of h does not take the name
\* back: the live entry keeps the address of the publisher that replaced h.
C30_StaleHeartbeat ==
    [][ \A h \in PublisherHosts :
          LET entry == services[HostInfo[h].name]
          IN  ( /\ hosts[h].started
                /\ hosts'[h].last_beat # hosts[h].last_beat
                /\ entry # None
                /\ ~is_expired(entry, now)
                /\ entry.info.address # HostInfo[h].address )
              => services'[HostInfo[h].name].info.address = entry.info.address
    ]_vars

(***************************************************************************)
(* Properties of the codec.                                                *)
(***************************************************************************)
\* C28: a message whose serialization is at most 16 MiB long is encoded,
\* the four-byte big-endian prefix of the frame is the number of payload
\* bytes that follow it, and decoding the frame gives the message back.
C28_RoundTrip ==
    (codec.msg # None /\ RLen(serialize(codec.msg.some)) <= 16777216) =>
        /\ "ok" \in DOMAIN codec.wire
        /\ LET frame == codec.wire.ok
               prefix == Field(frame, 0, 4)
           IN  /\ RLen(frame) - 4 = prefix[1] * 16777216 + prefix[2] * 65536
                                       + prefix[3] * 256 + prefix[4]
               /\ RDrop(frame, 4) = serialize(codec.msg.some)
        /\ codec.pc = "decoded" => codec.out = Some([ok |-> codec.msg.some])

\* A message of exactly 16 MiB has been encoded, written and decoded.
C28_Witness ==
    /\ codec.pc = "decoded"
    /\ codec.msg # None
    /\ RLen(serialize(codec.msg.some)) = 16777216
    /\ codec.out = Some([ok |-> codec.msg.some])

\* The length that the first four bytes of the stream announce
Announced ==
    LET prefix == Field(codec.stream, 0, 4)
    IN  IF prefix[1] >= 128 THEN 2147483647
        ELSE prefix[1] * 16777216 + prefix[2] * 65536 + prefix[3] * 256 + prefix[4]

\* C29: decode refuses a prefix above 16 MiB with a Protocol error, having
\* allocated nothing and read nothing but the prefix, and refuses no prefix
\* up to 16 MiB that way; encode refuses exactly the messages whose
\* serialization is longer than 16 MiB.
C29_FrameCap ==
    /\ (codec.pc = "decoded" /\ RLen(codec.stream) >= 4) =>
          IF Announced > 16777216
          THEN /\ codec.out = Some([err |-> [kind |-> "Protocol", len |-> Announced]])
               /\ codec.allocated = 0
               /\ codec.consumed = 4
          ELSE ~("err" \in DOMAIN codec.out.some /\ codec.out.some.err.kind = "Protocol")
    /\ codec.msg # None =>
          LET size == RLen(serialize(codec.msg.some))
          IN  IF size > 16777216
              THEN codec.wire = [err |-> [kind |-> "Protocol", len |-> size]]
              ELSE "ok" \in DOMAIN codec.wire

\* A frame announcing one byte more than 16 MiB, with 16 MiB of payload
\* behind the prefix, has been refused.
C29_Witness ==
    /\ codec.pc = "decoded"
    /\ RLen(codec.stream) = 4 + 16777216
    /\ Announced = 16777216 + 1
    /\ codec.out = Some([err |-> [kind |-> "Protocol", len |-> 16777217]])
    /\ codec.allocated = 0

(***************************************************************************)
(* Properties of the fan-out task and of subscriber intake.                *)
(***************************************************************************)
\* C31: with one task calling publish, every Publish message the fan-out
\* task writes carries the number its value was given by the fetch_add of
\* its publish call: the values still in the channel are the last ones
\* sent, so that number is `returned - Len(update_rx)`.
C31_SequenceOfPublish ==
    [][ (sender.pc = "lock" /\ sender'.pc = "recv") =>
          \A c \in ClientIds :
              Len(conn'[c].wire) > Len(conn[c].wire) =>
                  conn'[c].wire[Len(conn'[c].wire)].sequence
                      = returned - Len(update_rx)
    ]_vars

\* C32: a cleanup pass drops exactly the watches whose receiver count is
\* zero: a watch whose receiver is still held stays in the watch list.
C32_CleanupKeepsHeld ==
    [][ (cleanupPc = "watches" /\ cleanupPc' = "services") =>
          watches' = SelectSeq(watches, LAMBDA w : watchers[w].held)
    ]_vars

\* C33: when the first message on a connection is not a Subscribe and the
\* stream is still open, the listener task writes a SubscribeAck with
\* success = false, removes the client and records no subscription.
C33_IntakeFailureAck ==
    [][ \A c \in ClientIds :
          ( /\ listener[c] = "locked"
            /\ listener'[c] = "done"
            /\ conn[c].stage # "closed"
            /\ conn[c].sent # None
            /\ conn[c].sent.type # "Subscribe" )
          => /\ clients'[c] = None
             /\ Len(conn'[c].wire) = Len(conn[c].wire) + 1
             /\ conn'[c].wire[Len(conn'[c].wire)].type = "SubscribeAck"
             /\ ~conn'[c].wire[Len(conn'[c].wire)].success
    ]_vars

\* Client c holds a subscription that is to be sent the value the fan-out
\* task has in hand.
Due(c) ==
    /\ clients[c] # None
    /\ clients[c].subscription # None
    /\ LET sub == clients[c].subscription
       IN  CASE sub.mode.kind = "Once" -> sub.last_sent_at = None
             [] sub.mode.kind = "OnChange" -> sub.last_sent_value # Some(sender.new_value)

\* C34: in one fan-out pass every client that is due the value is either
\* removed from the map, which happens only when its stream is closed, or
\* written the value and marked as sent, whatever happens to the other
\* clients in the pass; a client that is not due is left as it is.
C34_FanOutFailure ==
    [][ (sender.pc = "lock" /\ sender'.pc = "recv") =>
          \A c \in ClientIds :
              IF Due(c)
              THEN \/ /\ clients'[c] = None
                      /\ conn[c].stage = "closed"
                      /\ conn'[c] = conn[c]
                   \/ /\ clients'[c] # None
                      /\ clients'[c].subscription.last_sent_at = Some(now)
                      /\ clients'[c].subscription.last_sent_value = Some(sender.new_value)
                      /\ conn[c].stage # "closed" =>
                            /\ Len(conn'[c].wire) = Len(conn[c].wire) + 1
                            /\ conn'[c].wire[Len(conn'[c].wire)].type = "Publish"
                            /\ conn'[c].wire[Len(conn'[c].wire)].value = sender.new_value
              ELSE clients'[c] = clients[c] /\ conn'[c] = conn[c]
    ]_vars

\* The only fan-out pass so far has removed client 1, which had subscribed
\* and then closed its connection, and has written v1 to client 2.
C34_Witness ==
    /\ sender.pc = "recv"
    /\ returned = 1
    /\ update_rx = <<>>
    /\ conn[1].stage = "closed"
    /\ Len(conn[1].wire) = 1
    /\ conn[1].wire[1].type = "SubscribeAck"
    /\ clients[1] = None
    /\ clients[2] # None
    /\ Publishes(2) # <<>>
    /\ clients[2].subscription.last_sent_value = Some("v1")

\* C35: a subscribed client whose connection has dropped while a publish
\* call is still to come is eventually removed from the clients map,
\* whatever the mode of its subscription and whatever it has been sent
\* before.
C35_ClientReaped ==
    \A c \in ClientIds :
        (/\ conn[c].stage = "closed"
         /\ clients[c] # None
         /\ clients[c].subscription # None
         /\ sequence_number < scenario.max_publish)
        ~> (clients[c] = None)

(***************************************************************************)
(* C36: on a registry connection Ping is answered with exactly one Pong,   *)
(* RegisterService with one ServiceRegistered and DiscoverServices with    *)
(* one ServicesDiscovered or Error, in the order of the requests; a        *)
(* payload of any other variant produces no response and leaves the        *)
(* connection open, so that later requests on it are answered; bytes that  *)
(* do not decode end the task of that connection and of no other.          *)
(***************************************************************************)
AnsweredTypes == {"Ping", "RegisterService", "DiscoverServices"}
Answered(handled) == SelectSeq(handled, LAMBDA m : m.type \in AnsweredTypes)
ResponseTypes(msg) ==
    CASE msg.type = "Ping" -> {"Pong"}
      [] msg.type = "RegisterService" -> {"ServiceRegistered"}
      [] msg.type = "DiscoverServices" -> {"ServicesDiscovered", "Error"}

\* The responses written on a connection the client keeps open are, one for
\* one, those of the requests handled; the task has ended exactly when bytes
\* that do not decode were read.
DispatchAnswers(c) ==
    LET rc == registry_conn[c]
        due == Answered(rc.handled)
        inHand == IF rc.task = "registering" THEN 1 ELSE 0
    IN  rc.stage = "open" =>
          /\ Len(rc.outbox) = Len(due) - inHand
          /\ \A i \in 1..Len(rc.outbox) : rc.outbox[i].type \in ResponseTypes(due[i])
          /\ rc.task = "ended"
               <=> \E i \in 1..Len(rc.handled) : rc.handled[i].type = "malformed"

\* A step that ends the task of one connection leaves the others as they are
DispatchClosesOne(c) ==
    (registry_conn[c].task # "ended" /\ registry_conn'[c].task = "ended")
        => \A d \in Conns \ {c} : registry_conn'[d] = registry_conn[d]

C36_Dispatch ==
    /\ [](\A c \in Conns : DispatchAnswers(c))
    /\ [][\A c \in Conns : DispatchClosesOne(c)]_vars

\* Connection 1 was sent a Heartbeat and then a Ping and answered the Ping
\* alone, and stays open, while connection 2 was ended by a malformed frame
C36_Witness ==
    /\ registry_conn[1].stage = "open"
    /\ registry_conn[1].task = "decode"
    /\ registry_conn[1].handled = <<[type |-> "Heartbeat"], [type |-> "Ping"]>>
    /\ registry_conn[1].outbox = <<[type |-> "Pong"]>>
    /\ registry_conn[2].task = "ended"
    /\ registry_conn[2].handled = <<[type |-> "malformed"]>>

\* C37: a heartbeat of a publisher only extends the lease: whenever
\* DiscoverServices returns the registration of a publisher that has
\* started, it carries the service_type, the schema_id and the tags of
\* the publisher's initial registration.
C37_HeartbeatKeepsInfo ==
    (reply # NoReply /\ reply.op = "Discover" /\ reply.result.ok)
        => \A i \in reply.result.services :
             \A h \in PublisherHosts :
                (hosts[h].started /\ i.name = HostInfo[h].name
                                  /\ i.address = HostInfo[h].address)
                    => /\ i.service_type = HostInfo[h].service_type
                       /\ i.schema_id = HostInfo[h].schema_id
                       /\ i.tags = HostInfo[h].tags

\* C38: expiry is permanent until re-registration: from a state in which n
\* is stored with its lease expired, where Lookup(n) returns NotFound, no
\* step other than a new registration makes Lookup(n) or Discover return n
\* again; a Renew before the cleanup pass in particular does not.
C38_ExpiryPermanent ==
    [][ \A n \in ServiceNames :
          ( /\ services[n] # None
            /\ is_expired(services[n], now)
            /\ total_registrations' = total_registrations )
          => /\ lookup_service(n)' = None
             /\ \A p \in scenario.patterns :
                   discover_services(p).ok =>
                      \A i \in discover_services(p)'.services : i.name # n
      ]_vars

\* The number of times v occurs in the sequence s.
Occurrences(s, v) == Cardinality({i \in 1..Len(s) : s[i] = v})

\* C39: no duplicate on subscribe: next() yields a value to an OnChange
\* subscriber at most as many times as publish has been called with it, so
\* that no single publish call is seen twice, once as the current value of
\* the SubscribeAck and once as a Publish.
C39_NoDuplicateOnSubscribe ==
    \A c \in ClientIds :
        subscriber[c].mode = [kind |-> "OnChange"]
            => \A v \in Values :
                  Occurrences(YieldedValues(c), Some(v)) <= Occurrences(published, v)

(***************************************************************************)
(* C40: deadlock freedom in the publisher.  With every task scheduled and  *)
(* every socket read and write completing, no task waits for ever on the   *)
(* clients lock or on the current_value lock: again and again no lock is   *)
(* held, no listener task is under way, every publish call has returned    *)
(* and the fan-out task has ended its pass for every value accepted into   *)
(* the broadcast channel.  (For each of these conditions X this gives      *)
(* X ~> ~X.)                                                               *)
(***************************************************************************)
\* A lock is held, or a task of the publisher has work at hand
PublisherBusy ==
    \/ clients_lock # None
    \/ current_value_writers # {}
    \/ \E p \in PublishCallers : publishers[p].pc # "idle"
    \/ \E c \in ClientIds : listener[c] \in {"spawned", "locked"}
    \/ update_rx # <<>>
    \/ sender.pc \in {"load", "lock"}

====
